---------------------------- MODULE Spec2Model ----------------------------
(***************************************************************************)
(* swarm-sentinel: the multi-stack coordinator, the per-stack runner       *)
(* cycle with its shared state file, the health evaluation and the         *)
(* transition engine (stabilization + diff).                               *)
(*                                                                         *)
(* The specifications share the variables below:                           *)
(*   SpecEval   health.EvaluateStackHealth applied to bounded inputs       *)
(*   SpecStab   one Runner cycling over the state file (stabilization)     *)
(*   SpecLock   Runners of several stacks sharing store and mutex          *)
(*   SpecCoord  Coordinator.Run / Stop / spawnRunner                       *)
(*   SpecLoop   Runner.Run: immediate cycle, ticker loop, cancellation     *)
(*   SpecStore  FileStore.Save / Load on the state file                    *)
(*   SpecFetch  HTTPFetcher.Fetch against a server with ETags              *)
(*   SpecSlack  the Slack notifier's payload                               *)
(*   SpecPost   the webhook post with its retries                          *)
(*   SpecRate   the per-stack rate limiter of the notifier                 *)
(*   SpecLegacy SpecStab started from a state file of the older format     *)
(*   SpecEndless whole cycles of one Runner, fairly scheduled              *)
(*   SpecOnce   Runner.RunOnce: fetch, parse, actual state, evaluation     *)
(*   SpecPage   swarm.paginateByIDPrefix over a bounded API                *)
(***************************************************************************)
EXTENDS Integers, Sequences, FiniteSets, TLC

VARIABLES
    \* ---- health evaluation (SpecEval)
    evalPc,           \* "input" | "done"
    evalDesired,      \* compose.DesiredState.Services
    evalActual,       \* swarm.ActualState.Services
    evalScoped,       \* stackScoped
    evalResult,       \* health.StackHealth
    \* ---- runner cycle and state store (SpecStab, SpecLock)
    stabilization,    \* Runner.alertStabilizationCycles (shared by all runners)
    stateFile,        \* state.State.Stacks as persisted at the store's path
    stateMu,          \* owner of the shared *sync.Mutex, or NoOwner
    pc,               \* per runner: position inside defaultRunOnce/evaluateAndPersist
    cycles,           \* per runner: number of cycles started
    stackHealth,      \* per runner: health.EvaluateStackHealth result of this cycle
    loaded,           \* per runner: the State returned by stateStore.Load
    snapshot,         \* per runner: prior StackSnapshot of its stack (NoSnapshot = nil)
    transitions,      \* per runner: transitions computed by stabilizeTransitions
    notified,         \* per runner: transitions handed to notifier.Notify this cycle
    cycleErr,         \* per runner: error returned by the last finished cycle
    lastInput,        \* per runner: inputs of the previous cycle (history)
    crossed,          \* per runner: services whose barrier was crossed earlier in the
                      \*   current run of identical inputs (history)
    before,           \* per runner: services map of the snapshot preceding `snapshot`
    lastSaved,        \* per runner: the snapshot its last successful Save wrote (history)
    notifyErr,        \* per runner: what notifier.Notify returned in its last call
    owed,             \* per runner: services that appeared not OK on a run that was
                      \*   not the first, kept their status since, and have had no
                      \*   transition emitted (history)
    undelivered,      \* per runner: services whose last emitted transition the
                      \*   notifier failed to deliver and whose status has been
                      \*   the same in every cycle saved since (history)
    fresh,            \* per runner: services that appeared OK on a run that was
                      \*   not the first and have been OK in every cycle saved
                      \*   since (history)
    \* ---- coordinator (SpecCoord)
    mappings,         \* Coordinator.mappings: stack name -> [url, timeout]
    cfg,              \* config.Config: PollInterval, ComposeTimeout
    coordPc,          \* position of Coordinator.Run
    cCancel,          \* c.cancel # nil
    cDone,            \* c.done # nil
    doneClosed,       \* close(done) executed
    ctxCancelled,     \* the ctx given to Run is cancelled
    runCtxCancelled,  \* runCtx (child of ctx) is cancelled
    wg,               \* sync.WaitGroup counter
    spawnPc,          \* per stack: position of spawnRunner / Runner.Run
    runnerCycles,     \* per stack: cycles run by Runner.Run under the coordinator
    runners,          \* keys of c.runners
    runnerErrors,     \* c.runnerErrors
    runResult,        \* value returned by Coordinator.Run
    stopPc,           \* position of Coordinator.Stop
    stopCancel,       \* Stop's local `cancel` # nil
    stopDone,         \* Stop's local `done` # nil
    stopDuringRun,    \* history: Stop was called while Run was entered and not returned
    \* ---- Runner.Run (SpecLoop)
    loopPc,           \* position of Runner.Run
    loopInterval,     \* r.pollInterval
    loopCtxDone,      \* the ctx given to Runner.Run is cancelled
    tickerState,      \* "none" | "running" | "stopped"
    tickPending,      \* a tick is buffered in ticker.C()
    ticksReceived,    \* ticks Runner.Run has received from ticker.C()
    cycleLog,         \* the RunOnce calls so far: error, ticks received, ticker state
    errorLog,         \* the "run cycle failed" events logged by Runner.Run
    loopResult,       \* value returned by Runner.Run
    \* ---- FileStore (SpecStore)
    storePath,        \* content of the file at s.path
    storeTemp,        \* content of the temp file of the Save in progress
    savePc,           \* position of FileStore.Save
    saveState,        \* the State being saved (after normalisation)
    saveResult,       \* value returned by the last Save
    saves,            \* number of Save calls started
    storePrev,        \* history: content of s.path when the current Save began
    loadFrom,         \* history: content of s.path read by the last Load
    loadResult,       \* <<State, error>> returned by the last Load
    \* ---- HTTPFetcher.Fetch (SpecFetch)
    fetchPc,          \* position of Fetch
    fetchMaxRetries,  \* f.maxRetries
    fetchRetryDelay,  \* f.retryDelay, in seconds
    fetchAttempt,     \* the loop variable `attempt`
    fetchLastErr,     \* lastErr
    fetchCtxDone,     \* the ctx given to Fetch is cancelled
    fetchDelay,       \* the delay of the last wait, in seconds
    fetchLog,         \* history: what each request sent by doFetch came back with
    fetchCancelAt,    \* history: where Fetch was when ctx was cancelled
    fetchResult,      \* <<error>> returned by Fetch (NilErr with a result)
    \* ---- Slack sink: buildSlackMessages (SpecSlack)
    slackPc,          \* "input" before buildSlackMessages is applied, "built" after
    slackStack,       \* the stack given to Notify
    slackTransitions, \* the transitions given to Notify
    slackMessages,    \* the messages built from them
    \* ---- httpPoster.postWithRetry (SpecPost)
    postPc,           \* position of postWithRetry: "send", "inflight", "sleep", "returned"
    postNow,          \* the clock, in time units since backoffCfg.Reset()
    postInterval,     \* the backoff's current interval
    postCtxDone,      \* the ctx given to postWithRetry is cancelled
    postResp,         \* the last response: status and Retry-After header
    postWait,         \* the wait chosen after the last failure: kind and duration
    postSlept,        \* history: the time the last completed sleep took
    postResult,       \* <<error>> returned by postWithRetry
    \* ---- httpPoster rate limiting of Notify (SpecRate)
    rateNow,          \* the clock, in time units
    limiters,         \* n.limiters: limiter key -> token bucket, <<>> if not created
    calls,            \* per Notify call: position, stack, context, reservation, result
    \* ---- Runner.defaultRunOnce: compose fetch, parse, actual state (SpecOnce)
    composeETag,      \* r.composeETag
    composeHash,      \* r.composeHash
    lastDesiredState, \* r.lastDesiredState: <<>> for nil, else <<DesiredState>>
    metricsSet,       \* r.metrics # nil
    dockerAPIErrors,  \* the Docker-API error counter of r.metrics
    serverDoc,        \* the compose file the server holds
    serverETags,      \* the server sends ETag headers and answers If-None-Match
    onceCycles,       \* number of cycles run
    parsedFrom,       \* history: the body lastDesiredState was parsed from
    onceLog,          \* history: what the last cycle did
    \* ---- swarm: paginateByIDPrefix (SpecPage)
    pagePc,           \* "input" before paginateByIDPrefix is applied, "done" after
    pageData,         \* the IDs of the items the API holds
    pageCapped,       \* the API returns at most maxListPageSize items per listing
    pageItems,        \* the items paginateByIDPrefix returned
    pageQueries       \* history: the ID prefixes it listed

evalVars == <<evalPc, evalDesired, evalActual, evalScoped, evalResult>>
runnerVars == <<stabilization, stateFile, stateMu, pc, cycles, stackHealth, loaded,
                snapshot, transitions, notified, cycleErr, lastInput, crossed,
                before, lastSaved, notifyErr, owed, undelivered, fresh>>
coordVars == <<mappings, cfg, coordPc, cCancel, cDone, doneClosed, ctxCancelled,
               runCtxCancelled, wg, spawnPc, runnerCycles, runners, runnerErrors,
               runResult, stopPc, stopCancel, stopDone, stopDuringRun>>
loopVars == <<loopPc, loopInterval, loopCtxDone, tickerState, tickPending,
              ticksReceived, cycleLog, errorLog, loopResult>>
storeVars == <<storePath, storeTemp, savePc, saveState, saveResult, saves,
               storePrev, loadFrom, loadResult>>
fetchVars == <<fetchPc, fetchMaxRetries, fetchRetryDelay, fetchAttempt, fetchLastErr,
               fetchCtxDone, fetchDelay, fetchLog, fetchCancelAt, fetchResult>>
slackVars == <<slackPc, slackStack, slackTransitions, slackMessages>>
postVars == <<postPc, postNow, postInterval, postCtxDone, postResp, postWait,
              postSlept, postResult>>
rateVars == <<rateNow, limiters, calls>>
onceVars == <<composeETag, composeHash, lastDesiredState, metricsSet,
              dockerAPIErrors, serverDoc, serverETags, onceCycles, parsedFrom,
              onceLog>>
pageVars == <<pagePc, pageData, pageCapped, pageItems, pageQueries>>
vars == <<evalVars, runnerVars, coordVars, loopVars, storeVars, fetchVars, slackVars, postVars, rateVars, onceVars, pageVars>>

---------------------------------------------------------------------------
(* Bounds *)
MaxReplicas == 3
MaxStacks == 2
MaxCycles == 3
MaxLockCycles == 3
MaxStabilization == 2
MaxRunnerCycles == 2
MaxTicks == 2
MaxSaves == 2
MaxFetchRetries == 2
MaxTransitions == 100
DurationBits == 6
MaxAttemptTime == 2
MaxCallers == 3
MaxRateTime == 5
MaxConsecutive == 3
MaxOnceCycles == 3

---------------------------------------------------------------------------
(* health: statuses, severity, worsenStatus *)

StatusOK == "OK"
StatusDegraded == "DEGRADED"
StatusFailed == "FAILED"
NoStatus == ""

DriftMissing == "MISSING"
DriftExtra == "EXTRA"
DriftExtraService == "EXTRA_SERVICE"

severity(status) ==
    CASE status = StatusFailed -> 2
      [] status = StatusDegraded -> 1
      [] OTHER -> 0

(* Variant that never worsens the status. *)
worsenStatusKeep(current, next) == current

worsenStatus(current, next) ==
    IF severity(next) > severity(current) THEN next ELSE current

(* swarm.NormalizeImage: an image is <<reference, digest>>; the digest suffix
   "@sha256:..." is stripped. *)
NormalizeImage(image) == <<image[1], "">>

NoImage == <<"", "">>

(* A reason string, kept as the format and its arguments. *)
Reason(kind, resource, name, x, y) ==
    [kind |-> kind, resource |-> resource, name |-> name, x |-> x, y |-> y]

ReasonMissingService == Reason("missing service", "", "", 0, 0)
ReasonExtraService == Reason("extra service", "", "", 0, 0)
ReasonImageMismatch(want, got) == Reason("image mismatch", want[1], got[1], 0, 0)
ReasonNoRunning(desired) == Reason("no running replicas", "", "", desired, 0)
ReasonReplicas(running, desired) == Reason("replicas running", "", "", running, desired)
ReasonMissing(resource, name) == Reason("missing", resource, name, 0, 0)
ReasonExtra(resource, name) == Reason("extra", resource, name, 0, 0)

Drift(kind, resource, name) == [Kind |-> kind, Resource |-> resource, Name |-> name]

(* Names of configs and secrets, in sort.Strings order. *)
ResourceNames == <<"cfg1", "cfg2">>
NameRank(n) == CHOOSE i \in 1..Len(ResourceNames) : ResourceNames[i] = n

Range(seq) == {seq[i] : i \in 1..Len(seq)}

RECURSIVE FilterSeq(_, _)
FilterSeq(seq, keep) ==
    IF seq = <<>> THEN <<>>
    ELSE IF Head(seq) \in keep
         THEN <<Head(seq)>> \o FilterSeq(Tail(seq), keep)
         ELSE FilterSeq(Tail(seq), keep)

RECURSIVE InsertSorted(_, _)
InsertSorted(n, sorted) ==
    IF sorted = <<>> THEN <<n>>
    ELSE IF NameRank(n) <= NameRank(Head(sorted))
         THEN <<n>> \o sorted
         ELSE <<Head(sorted)>> \o InsertSorted(n, Tail(sorted))

RECURSIVE SortNames(_)
SortNames(seq) ==
    IF seq = <<>> THEN <<>> ELSE InsertSorted(Head(seq), SortNames(Tail(seq)))

(* diffNames: <<missing, extra>>, each sorted. *)
diffNames(desired, actual) ==
    IF Len(desired) = 0 /\ Len(actual) = 0 THEN <<(<<>>), (<<>>)>>
    ELSE <<SortNames(FilterSeq(desired, Range(desired) \ Range(actual))),
           SortNames(FilterSeq(actual, Range(actual) \ Range(desired)))>>

RECURSIVE MapSeq(_, _, _, _)
MapSeq(Op(_, _, _), a, resource, names) ==
    IF names = <<>> THEN <<>>
    ELSE <<Op(a, resource, Head(names))>> \o MapSeq(Op, a, resource, Tail(names))

ReasonOf(kind, resource, name) == Reason(kind, resource, name, 0, 0)

(* applyDrift: appends "missing <resource>: n" then "extra <resource>: n". *)
applyDrift(reasons, drift, resource, desired, actual) ==
    LET d == diffNames(desired, actual) IN
    <<reasons \o MapSeq(ReasonOf, "missing", resource, d[1])
              \o MapSeq(ReasonOf, "extra", resource, d[2]),
      drift \o MapSeq(Drift, DriftMissing, resource, d[1])
            \o MapSeq(Drift, DriftExtra, resource, d[2])>>

(* Variant that reports undeclared services whatever the scope. *)
extraServicesAlways(declared, observed, stackScoped) == observed \ declared

(* The observed services reported as extra: none unless stack-scoped. *)
extraServices(declared, observed, stackScoped) ==
    IF stackScoped THEN observed \ declared ELSE {}

(* Variant that ignores the drift when grading the status. *)
DriftStatusIgnored(status, drift) == status

RECURSIVE DriftStatus(_, _)
DriftStatus(status, drift) ==
    IF drift = <<>> THEN status
    ELSE DriftStatus(
            CASE Head(drift).Kind = DriftMissing -> worsenStatus(status, StatusFailed)
              [] Head(drift).Kind = DriftExtra -> worsenStatus(status, StatusDegraded)
              [] OTHER -> status,
            Tail(drift))

(* health.ServiceHealth as produced by the evaluator (ConsecutiveCycles and
   LastNotifiedStatus are zero values until stabilizeTransitions sets them). *)
ServiceHealth(name, status, reasons, drift, dImage, aImage, dReplicas, rReplicas) ==
    [Name |-> name, Status |-> status, Reasons |-> reasons, Drift |-> drift,
     DesiredImage |-> dImage, ActualImage |-> aImage,
     DesiredReplicas |-> dReplicas, RunningReplicas |-> rReplicas,
     ConsecutiveCycles |-> 0, LastNotifiedStatus |-> NoStatus]

(* Variant without the replica rule. *)
replicaStatusIgnored(status, running, desiredReplicas) == status

(* The replica rule of evaluateService: the status after the switch. *)
replicaStatus(status, running, desiredReplicas) ==
    IF desiredReplicas > 0
    THEN CASE running = 0 -> worsenStatus(status, StatusFailed)
           [] running # 0 /\ running < desiredReplicas ->
                  worsenStatus(status, StatusDegraded)
           [] running # 0 /\ running > desiredReplicas ->
                  worsenStatus(status, StatusDegraded)
           [] OTHER -> status
    ELSE status

evaluateService(name, desired, actual) ==
    LET desiredImage == NormalizeImage(desired.Image)
        actualImage == NormalizeImage(actual.Image)
        mismatch == desiredImage # actualImage
        s1 == IF mismatch THEN worsenStatus(StatusOK, StatusDegraded) ELSE StatusOK
        r1 == IF mismatch THEN <<ReasonImageMismatch(desiredImage, actualImage)>>
              ELSE <<>>
        desiredReplicas == IF desired.Mode = "global" THEN actual.DesiredReplicas
                           ELSE desired.Replicas
        running == actual.RunningReplicas
        s2 == replicaStatus(s1, running, desiredReplicas)
        r2 == IF desiredReplicas > 0
              THEN CASE running = 0 -> r1 \o <<ReasonNoRunning(desiredReplicas)>>
                     [] running # 0 /\ running # desiredReplicas ->
                            r1 \o <<ReasonReplicas(running, desiredReplicas)>>
                     [] OTHER -> r1
              ELSE r1
        c == applyDrift(r2, <<>>, "config", desired.Configs, actual.Configs)
        s == applyDrift(c[1], c[2], "secret", desired.Secrets, actual.Secrets)
    IN ServiceHealth(name, DriftStatus(s2, s[2]), s[1], s[2],
                     desiredImage, actualImage, desiredReplicas, running)

(* The two loops of EvaluateStackHealth; the stack status is folded over the
   services in some iteration order (worsenStatus makes the order irrelevant). *)
RECURSIVE FoldStatus(_, _, _)
FoldStatus(status, services, names) ==
    IF names = {} THEN status
    ELSE LET n == CHOOSE x \in names : TRUE
         IN FoldStatus(worsenStatus(status, services[n].Status), services, names \ {n})

EvaluateStackHealth(desired, actual, stackScoped) ==
    LET declared == DOMAIN desired
        observed == DOMAIN actual
        extra == extraServices(declared, observed, stackScoped)
        services ==
            [n \in declared \cup extra |->
                IF n \in declared
                THEN IF n \notin observed
                     THEN ServiceHealth(n, StatusFailed, <<ReasonMissingService>>, <<>>,
                                        NormalizeImage(desired[n].Image), NoImage,
                                        desired[n].Replicas, 0)
                     ELSE evaluateService(n, desired[n], actual[n])
                ELSE ServiceHealth(n, StatusDegraded, <<ReasonExtraService>>,
                                   <<Drift(DriftExtraService, "service", actual[n].Name)>>,
                                   NoImage, NormalizeImage(actual[n].Image),
                                   actual[n].DesiredReplicas, actual[n].RunningReplicas)]
    IN [Status |-> FoldStatus(StatusOK, services, DOMAIN services),
        Services |-> services]

---------------------------------------------------------------------------
(* Inputs of the evaluation *)

Services == {"api", "web"}

ImageV1 == <<"app:v1", "">>
ImageV1Pinned == <<"app:v1", "sha256:abc">>
ImageV2 == <<"app:v2", "">>

DesiredService(image, mode, replicas, configs, secrets) ==
    [Image |-> image, Mode |-> mode, Replicas |-> replicas,
     Configs |-> configs, Secrets |-> secrets]

ActualService(name, image, desiredReplicas, running, configs, secrets, updateState) ==
    [Name |-> name, Image |-> image, DesiredReplicas |-> desiredReplicas,
     RunningReplicas |-> running, Configs |-> configs, Secrets |-> secrets,
     UpdateState |-> updateState]

EvalDesiredApi ==
    {DesiredService(i, m, r, c, s) :
        i \in {ImageV1, ImageV2}, m \in {"replicated", "global"},
        r \in 0..MaxReplicas, c \in {<<>>, <<"cfg2", "cfg1">>},
        s \in {<<>>, <<"cfg1">>}}

EvalActualApi ==
    {ActualService("api", i, d, r, c, s, u) :
        i \in {ImageV1, ImageV1Pinned}, d \in {0, 1, MaxReplicas},
        r \in 0..MaxReplicas, c \in {<<>>, <<"cfg1">>},
        s \in {<<>>, <<"cfg2">>}, u \in {"", "updating"}}

EvalDesiredWeb == {DesiredService(ImageV1, "replicated", 1, <<>>, <<>>)}
EvalActualWeb == {ActualService("web", ImageV1, 1, r, <<>>, <<>>, "") : r \in {0, 1}}

(* Maps from a set of service names to the given per-service choices. *)
ServiceMaps(apiChoices, webChoices) ==
    {[n \in {} |-> 0]}
    \cup {[n \in {"api"} |-> a] : a \in apiChoices}
    \cup {[n \in {"web"} |-> w] : w \in webChoices}
    \cup {[n \in {"api", "web"} |-> IF n = "api" THEN p[1] ELSE p[2]] :
             p \in apiChoices \X webChoices}

NoHealth == [Status |-> NoStatus, Services |-> [n \in {} |-> 0]]

EvalIdle ==
    /\ evalPc = "done"
    /\ evalDesired = [n \in {} |-> 0]
    /\ evalActual = [n \in {} |-> 0]
    /\ evalScoped = FALSE
    /\ evalResult = NoHealth

InitEvalInputs ==
    /\ evalPc = "input"
    /\ evalDesired \in ServiceMaps(EvalDesiredApi, EvalDesiredWeb)
    /\ evalActual \in ServiceMaps(EvalActualApi, EvalActualWeb)
    /\ evalScoped \in BOOLEAN
    /\ evalResult = NoHealth

(* health.EvaluateStackHealth(desired, actual, stackScoped) *)
Evaluate ==
    /\ evalPc = "input"
    /\ evalResult' = EvaluateStackHealth(evalDesired, evalActual, evalScoped)
    /\ evalPc' = "done"
    /\ UNCHANGED <<evalDesired, evalActual, evalScoped>>
    /\ UNCHANGED <<runnerVars, coordVars, loopVars, storeVars, fetchVars, slackVars, postVars, rateVars, onceVars, pageVars>>

---------------------------------------------------------------------------
(* transition: DetectServiceTransitions, buildReplicaChange, buildImageChange *)

(* The zero value a Go map lookup yields for a missing service. *)
ZeroHealth == ServiceHealth("", NoStatus, <<>>, <<>>, NoImage, NoImage, 0, 0)

NoServices == [n \in {} |-> ZeroHealth]

(* A *StackSnapshot is <<>> (nil) or <<snapshot>>. *)
NoSnapshot == <<>>

StackSnapshot(services, evaluatedAt) ==
    [Services |-> services, EvaluatedAt |-> evaluatedAt]

prevServicesOf(prev) == IF prev = NoSnapshot THEN NoServices ELSE prev[1].Services

isFirstRun(prev) == prev = NoSnapshot \/ DOMAIN prevServicesOf(prev) = {}

lookup(services, name) == IF name \in DOMAIN services THEN services[name] ELSE ZeroHealth

(* *ReplicaChange and *ImageChange: <<>> is nil. *)
buildReplicaChange(prev, current, hadPrev) ==
    IF ~hadPrev /\ current.DesiredReplicas = 0 /\ current.RunningReplicas = 0
    THEN <<>>
    ELSE <<[PreviousDesired |-> prev.DesiredReplicas,
            CurrentDesired |-> current.DesiredReplicas,
            PreviousRunning |-> prev.RunningReplicas,
            CurrentRunning |-> current.RunningReplicas,
            DesiredDelta |-> current.DesiredReplicas - prev.DesiredReplicas,
            RunningDelta |-> current.RunningReplicas - prev.RunningReplicas]>>

buildImageChange(prev, current, hadPrev) ==
    IF ~hadPrev /\ current.DesiredImage = NoImage /\ current.ActualImage = NoImage
    THEN <<>>
    ELSE <<[PreviousDesired |-> prev.DesiredImage,
            CurrentDesired |-> current.DesiredImage,
            PreviousActual |-> prev.ActualImage,
            CurrentActual |-> current.ActualImage]>>

(* The status a transition is measured against. *)
prevStatusOf(prevService) ==
    IF prevService.LastNotifiedStatus # NoStatus
    THEN prevService.LastNotifiedStatus
    ELSE prevService.Status

(* Variant without the suppression of a new OK service on a later run. *)
skipsServiceNewEmitted(firstRun, hadPrev, prevStatus, currentStatus) ==
    IF firstRun THEN currentStatus = StatusOK
    ELSE IF hadPrev THEN prevStatus = currentStatus
    ELSE FALSE

(* The `continue` conditions of the loop in DetectServiceTransitions. *)
skipsService(firstRun, hadPrev, prevStatus, currentStatus) ==
    IF firstRun THEN currentStatus = StatusOK
    ELSE IF hadPrev THEN prevStatus = currentStatus
    ELSE currentStatus = StatusOK

ServiceTransition(name, prevService, currentService, hadPrev) ==
    [Name |-> name,
     PreviousStatus |-> prevStatusOf(prevService),
     CurrentStatus |-> currentService.Status,
     Reasons |-> currentService.Reasons,
     Drift |-> currentService.Drift,
     ReplicaChange |-> buildReplicaChange(prevService, currentService, hadPrev),
     ImageChange |-> buildImageChange(prevService, currentService, hadPrev)]

(* Service names in ascending string order. *)
ServiceOrder == <<"api", "web">>

(* Variant that leaves the transitions in descending order of name. *)
RECURSIVE SortedByNameDescending(_, _, _)
SortedByNameDescending(order, names, make) ==
    IF order = <<>> THEN <<>>
    ELSE IF Head(order) \in names
         THEN SortedByNameDescending(Tail(order), names, make) \o <<make[Head(order)]>>
         ELSE SortedByNameDescending(Tail(order), names, make)

(* sort.Slice by Name over the transitions of the services in `names`. *)
RECURSIVE SortedByName(_, _, _)
SortedByName(order, names, make) ==
    IF order = <<>> THEN <<>>
    ELSE IF Head(order) \in names
         THEN <<make[Head(order)]>> \o SortedByName(Tail(order), names, make)
         ELSE SortedByName(Tail(order), names, make)

DetectServiceTransitions(prev, currentServices) ==
    LET prevServices == prevServicesOf(prev)
        firstRun == isFirstRun(prev)
        emits == {n \in DOMAIN currentServices :
                    ~skipsService(firstRun, n \in DOMAIN prevServices,
                                  prevStatusOf(lookup(prevServices, n)),
                                  currentServices[n].Status)}
        make == [n \in emits |->
                    ServiceTransition(n, lookup(prevServices, n), currentServices[n],
                                      n \in DOMAIN prevServices)]
    IN SortedByName(ServiceOrder, emits, make)

---------------------------------------------------------------------------
(* runner: stabilizeTransitions *)

effectiveStabilization(cycles_) == IF cycles_ <= 0 THEN 1 ELSE cycles_

(* Variant without the minimum of 2 after an observed prior entry. *)
consecutiveOfUnclamped(hadPrev, prevService, service) ==
    IF hadPrev /\ prevService.Status = service.Status
    THEN prevService.ConsecutiveCycles + 1
    ELSE 1

consecutiveOf(hadPrev, prevService, service) ==
    IF hadPrev /\ prevService.Status = service.Status
    THEN IF prevService.ConsecutiveCycles > 0
         THEN prevService.ConsecutiveCycles + 1
         ELSE 2
    ELSE 1

lastNotifiedOf(hadPrev, prevService) ==
    IF prevService.LastNotifiedStatus = NoStatus /\ hadPrev
    THEN prevService.Status
    ELSE prevService.LastNotifiedStatus

(* Variants of the notification rule used to test the properties below: one
   without the consecutive-cycle barrier, one without the first-run rule. *)
shouldNotifyNoBarrier(firstRun, status, lastNotified, consecutive, stab) ==
    IF firstRun THEN status # StatusOK ELSE status # lastNotified

shouldNotifyNoFirstRun(firstRun, status, lastNotified, consecutive, stab) ==
    IF status # lastNotified THEN stab <= 1 \/ consecutive >= stab
    ELSE FALSE

shouldNotify(firstRun, status, lastNotified, consecutive, stab) ==
    IF firstRun THEN status # StatusOK
    ELSE IF status # lastNotified THEN stab <= 1 \/ consecutive >= stab
    ELSE FALSE

(* Variant that never records the notified status. *)
nextLastNotifiedStale(notify, status, lastNotified) == lastNotified

(* LastNotifiedStatus stored for a service this cycle. *)
nextLastNotified(notify, status, lastNotified) ==
    IF notify THEN status ELSE lastNotified

stabilizeTransitions(stab_, prev, current) ==
    LET stab == effectiveStabilization(stab_)
        prevServices == prevServicesOf(prev)
        firstRun == isFirstRun(prev)
        hadPrev(n) == n \in DOMAIN prevServices
        cons(n) == consecutiveOf(hadPrev(n), lookup(prevServices, n), current.Services[n])
        last(n) == lastNotifiedOf(hadPrev(n), lookup(prevServices, n))
        notify(n) == shouldNotify(firstRun, current.Services[n].Status, last(n),
                                  cons(n), stab)
        eligible == {n \in DOMAIN current.Services : notify(n)}
        updated == [n \in DOMAIN current.Services |->
                      [current.Services[n] EXCEPT
                         !.ConsecutiveCycles = cons(n),
                         !.LastNotifiedStatus =
                            nextLastNotified(notify(n), current.Services[n].Status,
                                             last(n))]]
        \* eligibleServices[name] = service is stored before LastNotifiedStatus is
        \* overwritten with the current status
        eligibleServices == [n \in eligible |->
                      [current.Services[n] EXCEPT
                         !.ConsecutiveCycles = cons(n),
                         !.LastNotifiedStatus = last(n)]]
    IN [updatedServices |-> updated,
        transitions |-> DetectServiceTransitions(prev, eligibleServices)]

---------------------------------------------------------------------------
(* runner: one cycle of defaultRunOnce / evaluateAndPersist per stack *)

AllStackNames == <<"alpha", "beta", "gamma", "delta">>
Stacks == {AllStackNames[i] : i \in 1..MaxStacks}

NoOwner == ""
NoError == ""
RuntimeError == "runtime error"

NoInput == <<>>

(* Inputs of a cycle: <<desired services, actual services>>. *)
RunDesiredApi == {DesiredService(ImageV1, "replicated", 2, <<>>, <<>>)}
RunDesiredWeb == {DesiredService(ImageV1, "replicated", 1, <<>>, <<>>)}
RunActualApi == {ActualService("api", ImageV1, 2, r, <<>>, <<>>, "") : r \in 0..2}
RunActualWeb == {ActualService("web", ImageV1, 1, r, <<>>, <<>>, "") : r \in 0..1}

(* One runner alone: api declared or not, observed with 0..2 running or
   missing; web declared or not, observed (as declared or as an extra service). *)
StabDesired ==
    {d \in ServiceMaps(RunDesiredApi, RunDesiredWeb) : DOMAIN d # {"web"}}

StabActual ==
    {a \in ServiceMaps(RunActualApi, RunActualWeb) :
        /\ DOMAIN a # {"web"}
        /\ "web" \in DOMAIN a => a["api"].RunningReplicas = 2}

StabInputs ==
    {in \in StabDesired \X StabActual :
        /\ DOMAIN in[1] = {} => DOMAIN in[2] = {}
        /\ "web" \in DOMAIN in[1] =>
              "api" \in DOMAIN in[2] /\ in[2]["api"].RunningReplicas = 2}

(* Runners side by side: api declared, observed degraded or healthy. *)
LockInputs ==
    {<<d, a>> : d \in {[n \in {"api"} |-> x] : x \in RunDesiredApi},
                a \in {[n \in {"api"} |-> x] :
                          x \in {y \in RunActualApi : y.RunningReplicas > 0}}}

RunnerIdle ==
    /\ stateFile = [k \in {} |-> 0]
    /\ stateMu = NoOwner
    /\ pc = [r \in Stacks |-> "idle"]
    /\ cycles = [r \in Stacks |-> 0]
    /\ stackHealth = [r \in Stacks |-> NoHealth]
    /\ loaded = [r \in Stacks |-> [k \in {} |-> 0]]
    /\ snapshot = [r \in Stacks |-> NoSnapshot]
    /\ transitions = [r \in Stacks |-> <<>>]
    /\ notified = [r \in Stacks |-> <<>>]
    /\ cycleErr = [r \in Stacks |-> NoError]
    /\ lastInput = [r \in Stacks |-> NoInput]
    /\ crossed = [r \in Stacks |-> {}]
    /\ before = [r \in Stacks |-> NoSnapshot]
    /\ lastSaved = [r \in Stacks |-> NoSnapshot]
    /\ notifyErr = [r \in Stacks |-> NoError]
    /\ owed = [r \in Stacks |-> {}]
    /\ undelivered = [r \in Stacks |-> {}]
    /\ fresh = [r \in Stacks |-> {}]

(* r.stackKey(): the stack name (every stack of a mapping has one). *)
stackKey(r) == r

(* withStateLock: the shared mutex can be taken when nobody holds it. *)
(* Variant without mutual exclusion. *)
canLockAlways(mu) == TRUE

canLock(mu) == mu = NoOwner

(* The services whose stabilization barrier is crossed by this cycle: every
   service on a first run, otherwise those in their S-th (or later)
   consecutive cycle in the same status. *)
crossedBy(stab_, prev, updated) ==
    IF isFirstRun(prev) THEN DOMAIN updated
    ELSE {n \in DOMAIN updated :
            updated[n].ConsecutiveCycles >= effectiveStabilization(stab_)}

(* defaultRunOnce up to the call of evaluateAndPersist: desired and actual
   state are collected and the stack health is evaluated (stack-scoped). *)
StartCycle(r, inputs, limit) ==
    /\ pc[r] = "idle"
    /\ cycles[r] < limit
    /\ \E in \in inputs :
        /\ stackHealth' = [stackHealth EXCEPT ![r] =
                              EvaluateStackHealth(in[1], in[2], TRUE)]
        /\ lastInput' = [lastInput EXCEPT ![r] = in]
        /\ crossed' = [crossed EXCEPT ![r] =
                          IF in = lastInput[r] THEN crossed[r] ELSE {}]
    /\ cycles' = [cycles EXCEPT ![r] = @ + 1]
    /\ pc' = [pc EXCEPT ![r] = "lock"]
    /\ transitions' = [transitions EXCEPT ![r] = <<>>]
    /\ notified' = [notified EXCEPT ![r] = <<>>]
    /\ UNCHANGED <<stabilization, stateFile, stateMu, loaded, snapshot, cycleErr,
                   before, lastSaved>>
    /\ notifyErr' = [notifyErr EXCEPT ![r] = NoError]
    /\ UNCHANGED <<evalVars, coordVars, loopVars, storeVars, owed, undelivered, fresh, fetchVars, slackVars, postVars, rateVars, onceVars, pageVars>>

(* A cycle that returns a runtime error before evaluateAndPersist (compose
   fetch, fingerprint, parse or swarm actual state failed). *)
CycleFails(r, limit) ==
    /\ pc[r] = "idle"
    /\ cycles[r] < limit
    /\ cycles' = [cycles EXCEPT ![r] = @ + 1]
    /\ cycleErr' = [cycleErr EXCEPT ![r] = RuntimeError]
    /\ transitions' = [transitions EXCEPT ![r] = <<>>]
    /\ notified' = [notified EXCEPT ![r] = <<>>]
    /\ lastInput' = [lastInput EXCEPT ![r] = NoInput]
    /\ crossed' = [crossed EXCEPT ![r] = {}]
    /\ UNCHANGED <<stabilization, stateFile, stateMu, pc, stackHealth, loaded,
                   snapshot, before, lastSaved>>
    /\ notifyErr' = [notifyErr EXCEPT ![r] = NoError]
    /\ UNCHANGED <<evalVars, coordVars, loopVars, storeVars, owed, undelivered, fresh, fetchVars, slackVars, postVars, rateVars, onceVars, pageVars>>

(* withStateLock: r.stateMu.Lock() *)
Lock(r) ==
    /\ pc[r] = "lock"
    /\ canLock(stateMu)
    /\ stateMu' = r
    /\ pc' = [pc EXCEPT ![r] = "load"]
    /\ UNCHANGED <<stabilization, stateFile, cycles, stackHealth, loaded, snapshot,
                   transitions, notified, cycleErr, lastInput, crossed, before,
                   lastSaved>>
    /\ UNCHANGED <<evalVars, coordVars, loopVars, storeVars, notifyErr, owed, undelivered, fresh, fetchVars, slackVars, postVars, rateVars, onceVars, pageVars>>

(* r.stateStore.Load and the copy of the stack's existing snapshot. *)
Load(r) ==
    /\ pc[r] = "load"
    /\ \/ /\ loaded' = [loaded EXCEPT ![r] = stateFile]
          /\ snapshot' = [snapshot EXCEPT ![r] =
                IF stackKey(r) \in DOMAIN stateFile
                THEN <<stateFile[stackKey(r)]>> ELSE NoSnapshot]
          /\ before' = [before EXCEPT ![r] =
                IF stackKey(r) \in DOMAIN stateFile
                   /\ snapshot[r] # <<stateFile[stackKey(r)]>>
                THEN snapshot[r] ELSE @]
          /\ pc' = [pc EXCEPT ![r] = "stabilize"]
          /\ UNCHANGED cycleErr
       \/ /\ cycleErr' = [cycleErr EXCEPT ![r] = RuntimeError]
          /\ pc' = [pc EXCEPT ![r] = "unlockErr"]
          /\ UNCHANGED <<loaded, snapshot, before>>
    /\ UNCHANGED <<stabilization, stateFile, stateMu, cycles, stackHealth,
                   transitions, notified, lastInput, crossed, lastSaved>>
    /\ UNCHANGED <<evalVars, coordVars, loopVars, storeVars, notifyErr, owed, undelivered, fresh, fetchVars, slackVars, postVars, rateVars, onceVars, pageVars>>

(* Variant that keeps the services of the stack's previous entry that the new
   snapshot does not name. *)
putSnapshotMerged(stacks, key, snap) ==
    [k \in DOMAIN stacks \cup {key} |->
        IF k # key THEN stacks[k]
        ELSE IF key \notin DOMAIN stacks THEN snap
        ELSE [snap EXCEPT !.Services =
                 [n \in DOMAIN snap.Services \cup DOMAIN stacks[key].Services |->
                     IF n \in DOMAIN snap.Services THEN snap.Services[n]
                     ELSE stacks[key].Services[n]]]]

(* loaded.Stacks[stackKey] = state.StackSnapshot{...}: the stack's entry is
   replaced whole. *)
putSnapshot(stacks, key, snap) ==
    [k \in DOMAIN stacks \cup {key} |-> IF k = key THEN snap ELSE stacks[k]]

(* History: the services still owed a transition after a cycle that saved.
   A service enters when it has no entry in a prior snapshot that has
   services and is not OK; it stays while its status is the prior one; it
   leaves when a transition is emitted for it. *)
owedAfter(owedBefore, prev, currentServices, emitted) ==
    {n \in DOMAIN currentServices :
        /\ currentServices[n].Status # StatusOK
        /\ \A i \in 1..Len(emitted) : emitted[i].Name # n
        /\ IF n \in DOMAIN prevServicesOf(prev)
           THEN n \in owedBefore
                /\ prevServicesOf(prev)[n].Status = currentServices[n].Status
           ELSE ~isFirstRun(prev)}

(* stabilizeTransitions, the update of the loaded state and stateStore.Save. *)
StabilizeAndSave(r) ==
    /\ pc[r] = "stabilize"
    /\ LET res == stabilizeTransitions(stabilization, snapshot[r], stackHealth[r])
           snap == StackSnapshot(res.updatedServices, cycles[r])
           state == putSnapshot(loaded[r], stackKey(r), snap)
       IN /\ loaded' = [loaded EXCEPT ![r] = state]
          /\ transitions' = [transitions EXCEPT ![r] = res.transitions]
          /\ \/ /\ stateFile' = state
                /\ lastSaved' = [lastSaved EXCEPT ![r] = <<snap>>]
                /\ owed' = [owed EXCEPT ![r] =
                      owedAfter(@, snapshot[r], stackHealth[r].Services,
                                res.transitions)]
                /\ undelivered' = [undelivered EXCEPT ![r] =
                      {n \in @ \cap DOMAIN stackHealth[r].Services :
                          /\ n \in DOMAIN prevServicesOf(snapshot[r])
                          /\ prevServicesOf(snapshot[r])[n].Status =
                                stackHealth[r].Services[n].Status}]
                /\ fresh' = [fresh EXCEPT ![r] =
                      {n \in DOMAIN stackHealth[r].Services :
                          /\ stackHealth[r].Services[n].Status = StatusOK
                          /\ IF n \in DOMAIN prevServicesOf(snapshot[r])
                             THEN n \in @
                             ELSE ~isFirstRun(snapshot[r])}]
                /\ pc' = [pc EXCEPT ![r] = "unlock"]
                /\ UNCHANGED cycleErr
             \/ /\ cycleErr' = [cycleErr EXCEPT ![r] = RuntimeError]
                /\ pc' = [pc EXCEPT ![r] = "unlockErr"]
                /\ UNCHANGED <<stateFile, lastSaved, owed, undelivered, fresh>>
    /\ UNCHANGED <<stabilization, stateMu, cycles, stackHealth, snapshot, notified,
                   lastInput, crossed, before>>
    /\ UNCHANGED <<evalVars, coordVars, loopVars, storeVars, notifyErr, fetchVars, slackVars, postVars, rateVars, onceVars, pageVars>>

(* Variant that goes on to the notifier whatever withStateLock returned. *)
afterStateLockIgnoreError(at) == "notify"

(* `if err != nil { return err }` after withStateLock: the cycle goes on to
   the logging and the notifier only if load and save succeeded. *)
afterStateLock(at) == IF at = "unlock" THEN "notify" ELSE "idle"

(* The deferred r.stateMu.Unlock(); on an error the cycle returns it. *)
Unlock(r) ==
    /\ pc[r] \in {"unlock", "unlockErr"}
    /\ stateMu' = NoOwner
    /\ pc' = [pc EXCEPT ![r] = afterStateLock(pc[r])]
    /\ UNCHANGED <<stabilization, stateFile, cycles, stackHealth, loaded, snapshot,
                   transitions, notified, cycleErr, lastInput, crossed, before,
                   lastSaved>>
    /\ UNCHANGED <<evalVars, coordVars, loopVars, storeVars, notifyErr, owed, undelivered, fresh, fetchVars, slackVars, postVars, rateVars, onceVars, pageVars>>

(* One whole cycle of defaultRunOnce with nothing failing: the health is
   evaluated and, inside the lock, the state is loaded, stabilized and saved;
   then the transitions go to the notifier. The clock stands still (the
   transition logic does not read EvaluatedAt), and a cycle that would count
   beyond MaxConsecutive is left out. *)
RunCycle(r, inputs) ==
    /\ pc[r] = "idle"
    /\ stateMu = NoOwner
    /\ \E in \in inputs :
        LET health == EvaluateStackHealth(in[1], in[2], TRUE)
            prev == IF stackKey(r) \in DOMAIN stateFile
                    THEN <<stateFile[stackKey(r)]>> ELSE NoSnapshot
            res == stabilizeTransitions(stabilization, prev, health)
            snap == StackSnapshot(res.updatedServices, 0)
            state == putSnapshot(stateFile, stackKey(r), snap)
        IN /\ \A n \in DOMAIN res.updatedServices :
                 res.updatedServices[n].ConsecutiveCycles <= MaxConsecutive
           /\ stackHealth' = [stackHealth EXCEPT ![r] = health]
           /\ snapshot' = [snapshot EXCEPT ![r] = prev]
           /\ loaded' = [loaded EXCEPT ![r] = state]
           /\ stateFile' = state
           /\ transitions' = [transitions EXCEPT ![r] = res.transitions]
           /\ notified' = [notified EXCEPT ![r] = res.transitions]
    /\ UNCHANGED <<stabilization, stateMu, pc, cycles, cycleErr, lastInput, crossed,
                   before, lastSaved, notifyErr, owed, undelivered, fresh>>
    /\ UNCHANGED <<evalVars, coordVars, loopVars, storeVars, fetchVars, slackVars, postVars, rateVars, onceVars, pageVars>>

NotifyError == "notify failed"

(* Variant in which the cycle returns the notifier's error. *)
cycleResultFromNotify(err) == err

(* What evaluateAndPersist returns after the call of the notifier: the
   notifier's error is logged, the cycle returns nil. *)
cycleResultAfterNotify(err) == NoError

(* The rest of evaluateAndPersist: the transitions are logged and, when there
   are any, handed to the notifier, which may fail. *)
Notify(r) ==
    /\ pc[r] = "notify"
    /\ notified' = [notified EXCEPT ![r] = transitions[r]]
    /\ \E e \in (IF Len(transitions[r]) > 0 THEN {NoError, NotifyError}
                 ELSE {NoError}) :
          /\ notifyErr' = [notifyErr EXCEPT ![r] = e]
          /\ undelivered' = [undelivered EXCEPT ![r] =
                LET names == {transitions[r][i].Name : i \in 1..Len(transitions[r])}
                IN IF e = NoError THEN @ \ names ELSE @ \cup names]
          /\ cycleErr' = [cycleErr EXCEPT ![r] = cycleResultAfterNotify(e)]
    /\ crossed' = [crossed EXCEPT ![r] =
          @ \cup crossedBy(stabilization, snapshot[r], loaded[r][stackKey(r)].Services)]
    /\ pc' = [pc EXCEPT ![r] = "idle"]
    /\ UNCHANGED <<stabilization, stateFile, stateMu, cycles, stackHealth, loaded,
                   snapshot, transitions, lastInput, before, lastSaved>>
    /\ UNCHANGED <<evalVars, coordVars, loopVars, storeVars, owed, fresh, fetchVars, slackVars, postVars, rateVars, onceVars, pageVars>>

---------------------------------------------------------------------------
(* coordinator: Run, Stop, spawnRunner; Runner.Run as driven by spawnRunner *)

(* Compose URLs: empty, blank, and a usable one. *)
ComposeURLs == {"", " ", "http://compose/stack.yml"}

(* strings.TrimSpace on the URLs above. *)
TrimSpace(url) == IF url = " " THEN "" ELSE url

StackMapping(url, timeout) == [ComposeURL |-> url, Timeout |-> timeout]

MappingChoices == {StackMapping(u, t) : u \in ComposeURLs, t \in {0, 1}}

(* Every list of mappings over the stack names (names are unique). *)
MappingLists ==
    UNION {[names -> MappingChoices] : names \in SUBSET Stacks}

Configs == [PollInterval : {0, 1}, ComposeTimeout : {0, 1}]

(* The per-stack timeout: the override when set, else the global default. *)
timeoutOf(config, mapping) ==
    IF mapping.Timeout > 0 THEN mapping.Timeout ELSE config.ComposeTimeout

(* compose.NewHTTPFetcher: the error it returns, NoError on success. *)
NewHTTPFetcher(url, timeout) ==
    IF TrimSpace(url) = "" THEN "compose url must not be empty"
    ELSE IF timeout <= 0 THEN "timeout must be greater than zero"
    ELSE NoError

(* Runner.Run: the error of the poll interval check. *)
pollIntervalError(pollInterval) ==
    IF pollInterval <= 0 THEN "poll interval must be greater than zero" ELSE NoError

(* Coordinator.recordError *)
(* Variant that drops the error. *)
recordErrorDropped(errors, stackName, err) == errors

recordError(errors, stackName, err) ==
    [k \in DOMAIN errors \cup {stackName} |->
        IF k = stackName THEN err ELSE errors[k]]

(* Variant in which Run does not wait for the goroutines. *)
waitGroupIgnored(counter) == TRUE

(* wg.Wait() returns when the counter is zero. *)
waitGroupDone(counter) == counter = 0

(* `if done != nil { <-done }` in Stop: a receive on a closed channel returns. *)
stopMayReturn(done, closed) == ~done \/ closed

(* Variant that returns a recorded runner error. *)
runReturnFirstError(errors) ==
    IF \E k \in DOMAIN errors : errors[k] # NoError THEN "runner error"
    ELSE NoError

(* The value Coordinator.Run returns. *)
runReturnValue(errors) == NoError

NotReturned == "not returned"

CoordIdle ==
    /\ mappings = [k \in {} |-> 0]
    /\ cfg = [PollInterval |-> 1, ComposeTimeout |-> 1]
    /\ coordPc = "idle"
    /\ cCancel = FALSE
    /\ cDone = FALSE
    /\ doneClosed = FALSE
    /\ ctxCancelled = FALSE
    /\ runCtxCancelled = FALSE
    /\ wg = 0
    /\ spawnPc = [s \in Stacks |-> "none"]
    /\ runnerCycles = [s \in Stacks |-> 0]
    /\ runners = {}
    /\ runnerErrors = [k \in {} |-> NoError]
    /\ runResult = NotReturned
    /\ stopPc = "idle"
    /\ stopCancel = FALSE
    /\ stopDone = FALSE
    /\ stopDuringRun = FALSE

(* Run is entered: runCtx is derived from ctx and the done channel is made. *)
RunEnter ==
    /\ coordPc = "idle"
    /\ coordPc' = "publish"
    /\ runCtxCancelled' = ctxCancelled
    /\ UNCHANGED <<mappings, cfg, cCancel, cDone, doneClosed, ctxCancelled, wg,
                   spawnPc, runnerCycles, runners, runnerErrors, runResult, stopPc,
                   stopCancel, stopDone, stopDuringRun>>
    /\ UNCHANGED <<evalVars, runnerVars, loopVars, storeVars, fetchVars, slackVars, postVars, rateVars, onceVars, pageVars>>

(* c.cancel = cancel; c.done = done, under c.mu *)
RunPublish ==
    /\ coordPc = "publish"
    /\ cCancel' = TRUE
    /\ cDone' = TRUE
    /\ coordPc' = "spawn"
    /\ UNCHANGED <<mappings, cfg, doneClosed, ctxCancelled, runCtxCancelled, wg,
                   spawnPc, runnerCycles, runners, runnerErrors, runResult, stopPc,
                   stopCancel, stopDone, stopDuringRun>>
    /\ UNCHANGED <<evalVars, runnerVars, loopVars, storeVars, fetchVars, slackVars, postVars, rateVars, onceVars, pageVars>>

unspawned == {s \in DOMAIN mappings : spawnPc[s] = "none"}

(* One iteration of the spawn loop: wg.Add(1); go c.spawnRunner(...) *)
RunSpawn(s) ==
    /\ coordPc = "spawn"
    /\ s \in unspawned
    /\ wg' = wg + 1
    /\ spawnPc' = [spawnPc EXCEPT ![s] = "start"]
    /\ UNCHANGED <<mappings, cfg, coordPc, cCancel, cDone, doneClosed, ctxCancelled,
                   runCtxCancelled, runnerCycles, runners, runnerErrors, runResult,
                   stopPc, stopCancel, stopDone, stopDuringRun>>
    /\ UNCHANGED <<evalVars, runnerVars, loopVars, storeVars, fetchVars, slackVars, postVars, rateVars, onceVars, pageVars>>

(* wg.Wait() and the report of the recorded errors. *)
RunWait ==
    /\ coordPc = "spawn"
    /\ unspawned = {}
    /\ waitGroupDone(wg)
    /\ coordPc' = "deferred"
    /\ UNCHANGED <<mappings, cfg, cCancel, cDone, doneClosed, ctxCancelled,
                   runCtxCancelled, wg, spawnPc, runnerCycles, runners, runnerErrors,
                   runResult, stopPc, stopCancel, stopDone, stopDuringRun>>
    /\ UNCHANGED <<evalVars, runnerVars, loopVars, storeVars, fetchVars, slackVars, postVars, rateVars, onceVars, pageVars>>

(* The deferred function, first half: c.cancel = nil; c.done = nil under c.mu *)
RunClear ==
    /\ coordPc = "deferred"
    /\ cCancel' = FALSE
    /\ cDone' = FALSE
    /\ coordPc' = "close"
    /\ UNCHANGED <<mappings, cfg, doneClosed, ctxCancelled, runCtxCancelled, wg,
                   spawnPc, runnerCycles, runners, runnerErrors, runResult, stopPc,
                   stopCancel, stopDone, stopDuringRun>>
    /\ UNCHANGED <<evalVars, runnerVars, loopVars, storeVars, fetchVars, slackVars, postVars, rateVars, onceVars, pageVars>>

(* close(done), and Run returns. *)
RunReturn ==
    /\ coordPc = "close"
    /\ doneClosed' = TRUE
    /\ runResult' = runReturnValue(runnerErrors)
    /\ coordPc' = "returned"
    /\ UNCHANGED <<mappings, cfg, cCancel, cDone, ctxCancelled, runCtxCancelled, wg,
                   spawnPc, runnerCycles, runners, runnerErrors, stopPc, stopCancel,
                   stopDone, stopDuringRun>>
    /\ UNCHANGED <<evalVars, runnerVars, loopVars, storeVars, fetchVars, slackVars, postVars, rateVars, onceVars, pageVars>>

(* spawnRunner up to r.Run: the fetcher is made; on an error it is recorded
   and the goroutine ends (wg.Done), else the runner is put in c.runners. *)
SpawnRunner(s) ==
    /\ spawnPc[s] = "start"
    /\ LET err == NewHTTPFetcher(mappings[s].ComposeURL, timeoutOf(cfg, mappings[s]))
       IN IF err # NoError
          THEN /\ runnerErrors' = recordError(runnerErrors, s, err)
               /\ spawnPc' = [spawnPc EXCEPT ![s] = "initFailed"]
               /\ wg' = wg - 1
               /\ UNCHANGED runners
          ELSE /\ runners' = runners \cup {s}
               /\ spawnPc' = [spawnPc EXCEPT ![s] = "run"]
               /\ UNCHANGED <<runnerErrors, wg>>
    /\ UNCHANGED <<mappings, cfg, coordPc, cCancel, cDone, doneClosed, ctxCancelled,
                   runCtxCancelled, runnerCycles, runResult, stopPc, stopCancel,
                   stopDone, stopDuringRun>>
    /\ UNCHANGED <<evalVars, runnerVars, loopVars, storeVars, fetchVars, slackVars, postVars, rateVars, onceVars, pageVars>>

(* Runner.Run begins: the poll interval check (its error is recorded by
   spawnRunner, which then ends), else the immediate first cycle. *)
RunnerStart(s) ==
    /\ spawnPc[s] = "run"
    /\ LET err == pollIntervalError(cfg.PollInterval)
       IN IF err # NoError
          THEN /\ runnerErrors' = recordError(runnerErrors, s, err)
               /\ spawnPc' = [spawnPc EXCEPT ![s] = "exited"]
               /\ wg' = wg - 1
               /\ UNCHANGED runnerCycles
          ELSE /\ runnerCycles' = [runnerCycles EXCEPT ![s] = 1]
               /\ spawnPc' = [spawnPc EXCEPT ![s] = "loop"]
               /\ UNCHANGED <<runnerErrors, wg>>
    /\ UNCHANGED <<mappings, cfg, coordPc, cCancel, cDone, doneClosed, ctxCancelled,
                   runCtxCancelled, runners, runResult, stopPc, stopCancel, stopDone,
                   stopDuringRun>>
    /\ UNCHANGED <<evalVars, runnerVars, loopVars, storeVars, fetchVars, slackVars, postVars, rateVars, onceVars, pageVars>>

(* The select loop receives a tick and runs a cycle. *)
RunnerTick(s) ==
    /\ spawnPc[s] = "loop"
    /\ runnerCycles[s] < MaxRunnerCycles
    /\ runnerCycles' = [runnerCycles EXCEPT ![s] = @ + 1]
    /\ UNCHANGED <<mappings, cfg, coordPc, cCancel, cDone, doneClosed, ctxCancelled,
                   runCtxCancelled, wg, spawnPc, runners, runnerErrors, runResult,
                   stopPc, stopCancel, stopDone, stopDuringRun>>
    /\ UNCHANGED <<evalVars, runnerVars, loopVars, storeVars, fetchVars, slackVars, postVars, rateVars, onceVars, pageVars>>

(* The select loop receives ctx.Done(): Runner.Run returns nil and
   spawnRunner ends (wg.Done). *)
RunnerStop(s) ==
    /\ spawnPc[s] = "loop"
    /\ runCtxCancelled
    /\ spawnPc' = [spawnPc EXCEPT ![s] = "exited"]
    /\ wg' = wg - 1
    /\ UNCHANGED <<mappings, cfg, coordPc, cCancel, cDone, doneClosed, ctxCancelled,
                   runCtxCancelled, runnerCycles, runners, runnerErrors, runResult,
                   stopPc, stopCancel, stopDone, stopDuringRun>>
    /\ UNCHANGED <<evalVars, runnerVars, loopVars, storeVars, fetchVars, slackVars, postVars, rateVars, onceVars, pageVars>>

(* The caller cancels the ctx it gave to Run; runCtx is its child. *)
CancelContext ==
    /\ ~ctxCancelled
    /\ ctxCancelled' = TRUE
    /\ runCtxCancelled' = TRUE
    /\ UNCHANGED <<mappings, cfg, coordPc, cCancel, cDone, doneClosed, wg, spawnPc,
                   runnerCycles, runners, runnerErrors, runResult, stopPc, stopCancel,
                   stopDone, stopDuringRun>>
    /\ UNCHANGED <<evalVars, runnerVars, loopVars, storeVars, fetchVars, slackVars, postVars, rateVars, onceVars, pageVars>>

(* Stop reads c.cancel and c.done under c.mu.RLock *)
StopRead ==
    /\ stopPc = "idle"
    /\ stopCancel' = cCancel
    /\ stopDone' = cDone
    /\ stopDuringRun' = (coordPc \notin {"idle", "returned"})
    /\ stopPc' = "cancel"
    /\ UNCHANGED <<mappings, cfg, coordPc, cCancel, cDone, doneClosed, ctxCancelled,
                   runCtxCancelled, wg, spawnPc, runnerCycles, runners, runnerErrors,
                   runResult>>
    /\ UNCHANGED <<evalVars, runnerVars, loopVars, storeVars, fetchVars, slackVars, postVars, rateVars, onceVars, pageVars>>

(* `if cancel != nil { cancel() }` *)
StopCancel ==
    /\ stopPc = "cancel"
    /\ runCtxCancelled' = (runCtxCancelled \/ stopCancel)
    /\ stopPc' = "wait"
    /\ UNCHANGED <<mappings, cfg, coordPc, cCancel, cDone, doneClosed, ctxCancelled,
                   wg, spawnPc, runnerCycles, runners, runnerErrors, runResult,
                   stopCancel, stopDone, stopDuringRun>>
    /\ UNCHANGED <<evalVars, runnerVars, loopVars, storeVars, fetchVars, slackVars, postVars, rateVars, onceVars, pageVars>>

(* `if done != nil { <-done }`, and Stop returns. *)
StopReturn ==
    /\ stopPc = "wait"
    /\ stopMayReturn(stopDone, doneClosed)
    /\ stopPc' = "returned"
    /\ UNCHANGED <<mappings, cfg, coordPc, cCancel, cDone, doneClosed, ctxCancelled,
                   runCtxCancelled, wg, spawnPc, runnerCycles, runners, runnerErrors,
                   runResult, stopCancel, stopDone, stopDuringRun>>
    /\ UNCHANGED <<evalVars, runnerVars, loopVars, storeVars, fetchVars, slackVars, postVars, rateVars, onceVars, pageVars>>

---------------------------------------------------------------------------
(* Runner.Run: the immediate cycle, the ticker loop and cancellation *)

(* A cycle's outcome: the operation that failed and whether the error is a
   *RuntimeError (wrapRuntime); CycleOk is the nil error. *)
CycleOutcome(op, runtime) == [op |-> op, runtime |-> runtime]
CycleOk == CycleOutcome("", FALSE)
ContextCanceled == CycleOutcome("context canceled", FALSE)
wrapRuntime(op) == CycleOutcome(op, TRUE)

RuntimeOps ==
    {"compose fetch", "compose fingerprint", "compose parse", "swarm actual state",
     "state evaluation: state load", "state evaluation: state save",
     "state evaluation"}

(* What RunOnce may return: nil or a runtime error; once the context is
   cancelled also the context's error (defaultRunOnce checks ctx.Err()). *)
cycleOutcomes(ctxDone) ==
    {CycleOk} \cup {wrapRuntime(op) : op \in RuntimeOps}
    \cup (IF ctxDone THEN {ContextCanceled} ELSE {})

(* Variant that starts the ticker loop without the immediate cycle. *)
afterIntervalCheckNoFirst(err) == IF err # NoError THEN "returned" ELSE "ticker"

(* Where Run continues after the poll interval check. *)
afterIntervalCheck(err) == IF err # NoError THEN "returned" ELSE "first"

(* Variant in which a failed cycle ends Run. *)
afterCycleStopOnError(at, outcome) ==
    IF outcome # CycleOk THEN "returned"
    ELSE IF at = "first" THEN "ticker" ELSE "select"

(* Where Run continues after RunOnce returned: the error is only logged. *)
afterCycle(at, outcome) == IF at = "first" THEN "ticker" ELSE "select"

(* The event Run logs for a failed cycle. *)
cycleFailedEvent(at, outcome) ==
    [msg |-> IF at = "first" THEN "initial run cycle failed" ELSE "run cycle failed",
     runtime_error |-> outcome.runtime]

(* Variant without the deferred ticker.Stop(). *)
stopTickerSkipped(ticker) == ticker

(* defer ticker.Stop() *)
stopTicker(ticker) == "stopped"

LoopIdle ==
    /\ loopPc = "idle"
    /\ loopInterval = 1
    /\ loopCtxDone = FALSE
    /\ tickerState = "none"
    /\ tickPending = FALSE
    /\ ticksReceived = 0
    /\ cycleLog = <<>>
    /\ errorLog = <<>>
    /\ loopResult = NotReturned

(* Run is entered: the poll interval check. *)
LoopEnter ==
    /\ loopPc = "entry"
    /\ LET err == pollIntervalError(loopInterval) IN
          /\ loopPc' = afterIntervalCheck(err)
          /\ loopResult' = IF err # NoError THEN err ELSE loopResult
    /\ UNCHANGED <<loopInterval, loopCtxDone, tickerState, tickPending,
                   ticksReceived, cycleLog, errorLog>>
    /\ UNCHANGED <<evalVars, runnerVars, coordVars, storeVars, fetchVars, slackVars, postVars, rateVars, onceVars, pageVars>>

(* r.RunOnce(ctx) returns, at startup or after a tick; a failure is logged. *)
LoopCycle ==
    /\ loopPc \in {"first", "cycle"}
    /\ \E outcome \in cycleOutcomes(loopCtxDone) :
          LET next == afterCycle(loopPc, outcome) IN
          /\ cycleLog' = Append(cycleLog, [err |-> outcome, ticks |-> ticksReceived,
                                           ticker |-> tickerState])
          /\ errorLog' = IF outcome = CycleOk THEN errorLog
                         ELSE Append(errorLog, cycleFailedEvent(loopPc, outcome))
          /\ loopPc' = next
          /\ loopResult' = IF next = "returned" THEN outcome.op ELSE loopResult
          /\ tickerState' = IF next = "returned" /\ tickerState = "running"
                            THEN stopTicker(tickerState) ELSE tickerState
    /\ UNCHANGED <<loopInterval, loopCtxDone, tickPending, ticksReceived>>
    /\ UNCHANGED <<evalVars, runnerVars, coordVars, storeVars, fetchVars, slackVars, postVars, rateVars, onceVars, pageVars>>

(* ticker := r.tickerFactory(r.pollInterval) *)
LoopMakeTicker ==
    /\ loopPc = "ticker"
    /\ tickerState' = "running"
    /\ loopPc' = "select"
    /\ UNCHANGED <<loopInterval, loopCtxDone, tickPending, ticksReceived, cycleLog,
                   errorLog, loopResult>>
    /\ UNCHANGED <<evalVars, runnerVars, coordVars, storeVars, fetchVars, slackVars, postVars, rateVars, onceVars, pageVars>>

(* The running ticker puts a tick into its channel (buffer of one). *)
Tick ==
    /\ tickerState = "running"
    /\ ~tickPending
    /\ ticksReceived < MaxTicks
    /\ tickPending' = TRUE
    /\ UNCHANGED <<loopPc, loopInterval, loopCtxDone, tickerState, ticksReceived,
                   cycleLog, errorLog, loopResult>>
    /\ UNCHANGED <<evalVars, runnerVars, coordVars, storeVars, fetchVars, slackVars, postVars, rateVars, onceVars, pageVars>>

(* select: case <-ticker.C() *)
LoopReceiveTick ==
    /\ loopPc = "select"
    /\ tickPending
    /\ tickPending' = FALSE
    /\ ticksReceived' = ticksReceived + 1
    /\ loopPc' = "cycle"
    /\ UNCHANGED <<loopInterval, loopCtxDone, tickerState, cycleLog, errorLog,
                   loopResult>>
    /\ UNCHANGED <<evalVars, runnerVars, coordVars, storeVars, fetchVars, slackVars, postVars, rateVars, onceVars, pageVars>>

(* select: case <-ctx.Done(): return nil, the deferred ticker.Stop() runs. *)
LoopDone ==
    /\ loopPc = "select"
    /\ loopCtxDone
    /\ tickerState' = stopTicker(tickerState)
    /\ loopResult' = NoError
    /\ loopPc' = "returned"
    /\ UNCHANGED <<loopInterval, loopCtxDone, tickPending, ticksReceived, cycleLog,
                   errorLog>>
    /\ UNCHANGED <<evalVars, runnerVars, coordVars, storeVars, fetchVars, slackVars, postVars, rateVars, onceVars, pageVars>>

(* The caller cancels the context. *)
LoopCancel ==
    /\ loopPc # "idle"
    /\ ~loopCtxDone
    /\ loopCtxDone' = TRUE
    /\ UNCHANGED <<loopPc, loopInterval, tickerState, tickPending, ticksReceived,
                   cycleLog, errorLog, loopResult>>
    /\ UNCHANGED <<evalVars, runnerVars, coordVars, storeVars, fetchVars, slackVars, postVars, rateVars, onceVars, pageVars>>

---------------------------------------------------------------------------
(* state.FileStore: Load and Save on the file at s.path *)

CurrentStateVersion == 1

(* state.State; Stacks is <<>> for a nil map and <<m>> for the map m. *)
State(version, stacks) == [Version |-> version, Stacks |-> stacks]
NilStacks == <<>>
EmptyStacks == <<[k \in {} |-> 0]>>
ZeroState == State(0, NilStacks)
FreshState == State(CurrentStateVersion, EmptyStacks)

(* What a file holds: nothing (it does not exist), a complete JSON document
   of a State, a truncated document, or bytes that are not JSON. *)
FileContent(kind, version, stacks) ==
    [kind |-> kind, version |-> version, stacks |-> stacks]
NoFile == FileContent("missing", 0, NilStacks)
EmptyFile == FileContent("partial", 0, NilStacks)
Garbage == FileContent("garbage", 0, NilStacks)

(* json.NewEncoder(f).Encode(state): the complete document. *)
Encode(state) == FileContent("json", state.Version, state.Stacks)
(* The file while only a prefix of the document has been written. *)
Truncated(doc) == FileContent("partial", doc.version, doc.stacks)

(* json.Unmarshal(data, &state): <<state, ok>>. *)
Unmarshal(content) ==
    IF content.kind = "json" THEN <<State(content.version, content.stacks), TRUE>>
    ELSE <<ZeroState, FALSE>>

(* The version migration of Load. *)
migrateVersion(version) == IF version = 0 THEN CurrentStateVersion ELSE version

(* FileStore.Load: <<State, error>>. *)
Load_(content, readError, ctxDone) ==
    IF ctxDone THEN <<ZeroState, "context canceled">>
    ELSE IF content.kind = "missing" THEN <<FreshState, NoError>>
    ELSE IF readError THEN <<ZeroState, "read error">>
    ELSE LET parsed == Unmarshal(content)
             version == migrateVersion(parsed[1].Version)
         IN IF ~parsed[2] THEN <<FreshState, NoError>>
            ELSE IF version > CurrentStateVersion THEN <<FreshState, NoError>>
            ELSE <<State(version,
                         IF parsed[1].Stacks = NilStacks THEN EmptyStacks
                         ELSE parsed[1].Stacks), NoError>>

(* The normalisation at the start of Save. *)
normalizeForSave(state) ==
    State(IF state.Version = 0 THEN CurrentStateVersion ELSE state.Version,
          IF state.Stacks = NilStacks THEN EmptyStacks ELSE state.Stacks)

(* The files of a Save: the destination s.path and the temp file. *)
Files(dest, temp) == [dest |-> dest, temp |-> temp]

(* Variant that encodes straight into the destination. *)
encodeBeginInPlace(files, doc) == Files(Truncated(doc), files.temp)

(* Encode has written a prefix of the document into the temp file. *)
encodeBegin(files, doc) == Files(files.dest, Truncated(doc))

(* Encode has written the whole document. *)
encodeEnd(files, doc) ==
    IF files.temp.kind = "partial" THEN Files(files.dest, doc)
    ELSE Files(doc, files.temp)

(* os.Rename(tempFile.Name(), s.path) *)
rename(files) ==
    IF files.temp.kind = "missing" THEN files ELSE Files(files.temp, NoFile)

(* cleanup: os.Remove(tempFile.Name()) *)
cleanup(files) == Files(files.dest, NoFile)

StackDocs ==
    {NilStacks, EmptyStacks} \cup
    {<<[k \in {AllStackNames[1]} |-> snap]>> : snap \in {"snapshot-1", "snapshot-2"}}

(* Files found at s.path when the process starts. *)
FileVersions == -1..(CurrentStateVersion + 1)
InitialFiles ==
    {NoFile, Garbage} \cup
    {FileContent("json", v, st) : v \in FileVersions, st \in StackDocs}

(* States handed to Save. *)
SaveStates == {State(v, st) : v \in 0..CurrentStateVersion, st \in StackDocs}

NoLoad == <<ZeroState, "not loaded">>

StoreIdle ==
    /\ storePath = NoFile
    /\ storeTemp = NoFile
    /\ savePc = "idle"
    /\ saveState = ZeroState
    /\ saveResult = NoError
    /\ saves = 0
    /\ storePrev = NoFile
    /\ loadFrom = NoFile
    /\ loadResult = NoLoad

SaveSteps == <<"mkdir", "create", "chmod", "encode", "encoding", "sync", "close",
               "rename", "dirsync">>
StepIndex(step) == CHOOSE i \in 1..Len(SaveSteps) : SaveSteps[i] = step
InSave == savePc \in Range(SaveSteps)

(* Save is called: the context check and the normalisation of the state. *)
SaveBegin ==
    /\ savePc = "idle"
    /\ saves < MaxSaves
    /\ saves' = saves + 1
    /\ \E st \in SaveStates \cup (IF loadResult[2] = NoError THEN {loadResult[1]}
                                  ELSE {}) :
          \/ /\ saveState' = normalizeForSave(st)
             /\ storePrev' = storePath
             /\ savePc' = "mkdir"
             /\ UNCHANGED saveResult
          \/ /\ saveResult' = "context canceled"
             /\ UNCHANGED <<saveState, storePrev, savePc>>
    /\ UNCHANGED <<storePath, storeTemp, loadFrom, loadResult>>
    /\ UNCHANGED <<evalVars, runnerVars, coordVars, loopVars, fetchVars, slackVars, postVars, rateVars, onceVars, pageVars>>

(* The next step of Save succeeds. *)
SaveStep ==
    /\ InSave
    /\ LET files == Files(storePath, storeTemp)
           doc == Encode(saveState)
           after ==
             CASE savePc = "create" -> Files(storePath, EmptyFile)
               [] savePc = "encode" -> encodeBegin(files, doc)
               [] savePc = "encoding" -> encodeEnd(files, doc)
               [] savePc = "rename" -> rename(files)
               [] OTHER -> files
       IN /\ storePath' = after.dest
          /\ storeTemp' = after.temp
    /\ savePc' = IF savePc = "dirsync" THEN "idle"
                 ELSE SaveSteps[StepIndex(savePc) + 1]
    /\ saveResult' = IF savePc = "dirsync" THEN NoError ELSE saveResult
    /\ UNCHANGED <<saveState, saves, storePrev, loadFrom, loadResult>>
    /\ UNCHANGED <<evalVars, runnerVars, coordVars, loopVars, fetchVars, slackVars, postVars, rateVars, onceVars, pageVars>>

(* A step of Save returns an error: the temp file, if made, is removed and
   Save returns the error (a failed directory sync is ignored). *)
SaveFail ==
    /\ InSave
    /\ savePc # "dirsync"
    /\ LET after == cleanup(Files(storePath, storeTemp))
       IN /\ storePath' = after.dest
          /\ storeTemp' = after.temp
    /\ savePc' = "idle"
    /\ saveResult' = "save error"
    /\ UNCHANGED <<saveState, saves, storePrev, loadFrom, loadResult>>
    /\ UNCHANGED <<evalVars, runnerVars, coordVars, loopVars, fetchVars, slackVars, postVars, rateVars, onceVars, pageVars>>

(* The process is interrupted inside Save: nothing more is written. *)
Interrupt ==
    /\ InSave
    /\ savePc' = "interrupted"
    /\ UNCHANGED <<storePath, storeTemp, saveState, saveResult, saves, storePrev,
                   loadFrom, loadResult>>
    /\ UNCHANGED <<evalVars, runnerVars, coordVars, loopVars, fetchVars, slackVars, postVars, rateVars, onceVars, pageVars>>

(* A new process starts; the temp file of the interrupted Save keeps its own
   name and is never read or reused. *)
Restart ==
    /\ savePc = "interrupted"
    /\ savePc' = "idle"
    /\ storeTemp' = NoFile
    /\ loadResult' = NoLoad
    /\ UNCHANGED <<storePath, saveState, saveResult, saves, storePrev, loadFrom>>
    /\ UNCHANGED <<evalVars, runnerVars, coordVars, loopVars, fetchVars, slackVars, postVars, rateVars, onceVars, pageVars>>

(* FileStore.Load, by this process or by one started after an interruption. *)
LoadFile ==
    /\ savePc \in {"idle", "interrupted"}
    /\ \E readError, ctxDone \in BOOLEAN :
          loadResult' = Load_(storePath, readError, ctxDone)
    /\ loadFrom' = storePath
    /\ UNCHANGED <<storePath, storeTemp, savePc, saveState, saveResult, saves,
                   storePrev>>
    /\ UNCHANGED <<evalVars, runnerVars, coordVars, loopVars, fetchVars, slackVars, postVars, rateVars, onceVars, pageVars>>

---------------------------------------------------------------------------
(* compose: HTTPFetcher.Fetch, the retry loop around doFetch *)

defaultMaxRetries == 3
maxRetryDelay == 30

(* An error value: what it is, the request it came from, and the error it
   wraps (<<>> when it wraps none). *)
FetchErr(kind, n, cause) == [kind |-> kind, n |-> n, cause |-> cause]
NilErr == FetchErr("nil", 0, <<>>)
CtxCanceled == FetchErr("context canceled", 0, <<>>)

(* ctx.Err() *)
ctxErr(done) == IF done THEN CtxCanceled ELSE NilErr

(* What doFetch can return for request n: a result (200 with a body, 304), a
   5xx ("server error: ..."), a transient network error, an unexpected status
   or an empty body (both nonRetryableError), another network error. *)
FetchOK(n) == FetchErr("nil", n, <<>>)
ServerError(n) == FetchErr("server error", n, <<>>)
TransientError(n) == FetchErr("fetch compose: i/o timeout", n, <<>>)
UnexpectedStatus(n) == FetchErr("unexpected status", n, <<>>)
OtherError(n) == FetchErr("fetch compose: certificate", n, <<>>)
AbortedRequest(n) == FetchErr("fetch compose", n, <<CtxCanceled>>)

doFetchOutcomes(n, done) ==
    IF done THEN {AbortedRequest(n), ServerError(n), UnexpectedStatus(n)}
    ELSE {FetchOK(n), ServerError(n), TransientError(n), UnexpectedStatus(n),
          OtherError(n)}

isRetryableError(err) ==
    err.kind \in {"server error", "fetch compose: i/o timeout"}

(* fmt.Errorf("fetch failed after %d attempts: %w", f.maxRetries+1, lastErr) *)
fetchFailedAfter(maxRetries, lastErr) ==
    FetchErr("fetch failed after attempts", maxRetries + 1, <<lastErr>>)

(* f.calculateBackoff(attempt), in seconds. *)
RECURSIVE backoffFrom(_, _, _)
backoffFrom(delay, i, attempt) ==
    IF i >= attempt THEN delay
    ELSE IF delay * 2 > maxRetryDelay THEN maxRetryDelay
    ELSE backoffFrom(delay * 2, i + 1, attempt)

calculateBackoff(retryDelay, attempt) == backoffFrom(retryDelay, 1, attempt)

(* Variant of the loop condition that stops one attempt early. *)
loopContinuesShort(attempt, maxRetries) == attempt < maxRetries

(* for attempt := 0; attempt <= f.maxRetries; attempt++ *)
loopContinues(attempt, maxRetries) == attempt <= maxRetries

(* Variant that classifies the error of an attempt without looking at the
   context first. *)
afterDoFetchNoCtxCheck(err, done) ==
    IF err.kind = "nil" THEN [next |-> "return", err |-> NilErr]
    ELSE IF ~isRetryableError(err) THEN [next |-> "return", err |-> err]
    ELSE [next |-> "retry", err |-> err]

(* Lines 127-140: what Fetch does with the error of an attempt. *)
afterDoFetch(err, done) ==
    IF err.kind = "nil" THEN [next |-> "return", err |-> NilErr]
    ELSE IF ctxErr(done) # NilErr THEN [next |-> "return", err |-> ctxErr(done)]
    ELSE IF ~isRetryableError(err) THEN [next |-> "return", err |-> err]
    ELSE [next |-> "retry", err |-> err]

(* WithMaxRetries: a negative n leaves the default. *)
WithMaxRetries(n) == IF n >= 0 THEN n ELSE defaultMaxRetries

FetchRetryChoices == {WithMaxRetries(n) : n \in -1..MaxFetchRetries}
FetchDelayChoices == {1, 20}

NoFetchResult == <<>>

FetchIdle ==
    /\ fetchPc = "off"
    /\ fetchMaxRetries = defaultMaxRetries
    /\ fetchRetryDelay = 1
    /\ fetchAttempt = 0
    /\ fetchLastErr = NilErr
    /\ fetchCtxDone = FALSE
    /\ fetchDelay = 0
    /\ fetchLog = <<>>
    /\ fetchCancelAt = <<>>
    /\ fetchResult = NoFetchResult

(* The top of the loop: leave it with the wrapped last error, wait before a
   retry, or go on to the first attempt. *)
FetchLoop ==
    /\ fetchPc = "loop"
    /\ IF ~loopContinues(fetchAttempt, fetchMaxRetries)
       THEN /\ fetchResult' = <<fetchFailedAfter(fetchMaxRetries, fetchLastErr)>>
            /\ fetchPc' = "returned"
            /\ UNCHANGED fetchDelay
       ELSE IF fetchAttempt > 0
       THEN /\ fetchDelay' = calculateBackoff(fetchRetryDelay, fetchAttempt)
            /\ fetchPc' = "wait"
            /\ UNCHANGED fetchResult
       ELSE /\ fetchPc' = "doFetch"
            /\ UNCHANGED <<fetchDelay, fetchResult>>
    /\ UNCHANGED <<fetchMaxRetries, fetchRetryDelay, fetchAttempt, fetchLastErr,
                   fetchCtxDone, fetchLog, fetchCancelAt>>
    /\ UNCHANGED <<evalVars, runnerVars, coordVars, loopVars, storeVars, slackVars, postVars, rateVars, onceVars, pageVars>>

(* The select of the wait: the timer fires, or the context is done first. *)
FetchWait ==
    /\ fetchPc = "wait"
    /\ IF fetchCtxDone
       THEN /\ fetchResult' = <<ctxErr(fetchCtxDone)>>
            /\ fetchPc' = "returned"
       ELSE /\ fetchPc' = "doFetch"
            /\ UNCHANGED fetchResult
    /\ UNCHANGED <<fetchMaxRetries, fetchRetryDelay, fetchAttempt, fetchLastErr,
                   fetchCtxDone, fetchDelay, fetchLog, fetchCancelAt>>
    /\ UNCHANGED <<evalVars, runnerVars, coordVars, loopVars, storeVars, slackVars, postVars, rateVars, onceVars, pageVars>>

(* doFetch sends the request; with a context that is already done the client
   returns its error without sending. *)
FetchSend ==
    /\ fetchPc = "doFetch"
    /\ IF fetchCtxDone
       THEN /\ fetchResult' = <<afterDoFetch(AbortedRequest(0), fetchCtxDone).err>>
            /\ fetchPc' = "returned"
            /\ UNCHANGED fetchLog
       ELSE /\ fetchLog' = Append(fetchLog, NilErr)
            /\ fetchPc' = "inflight"
            /\ UNCHANGED fetchResult
    /\ UNCHANGED <<fetchMaxRetries, fetchRetryDelay, fetchAttempt, fetchLastErr,
                   fetchCtxDone, fetchDelay, fetchCancelAt>>
    /\ UNCHANGED <<evalVars, runnerVars, coordVars, loopVars, storeVars, slackVars, postVars, rateVars, onceVars, pageVars>>

(* doFetch returns and Fetch classifies what it returned. *)
FetchRespond ==
    /\ fetchPc = "inflight"
    /\ \E err \in doFetchOutcomes(Len(fetchLog), fetchCtxDone) :
          LET step == afterDoFetch(err, fetchCtxDone)
          IN /\ fetchLog' = [fetchLog EXCEPT ![Len(fetchLog)] = err]
             /\ IF step.next = "return"
                THEN /\ fetchResult' = <<step.err>>
                     /\ fetchPc' = "returned"
                     /\ UNCHANGED <<fetchLastErr, fetchAttempt>>
                ELSE /\ fetchLastErr' = step.err
                     /\ fetchAttempt' = fetchAttempt + 1
                     /\ fetchPc' = "loop"
                     /\ UNCHANGED fetchResult
    /\ UNCHANGED <<fetchMaxRetries, fetchRetryDelay, fetchCtxDone, fetchDelay,
                   fetchCancelAt>>
    /\ UNCHANGED <<evalVars, runnerVars, coordVars, loopVars, storeVars, slackVars, postVars, rateVars, onceVars, pageVars>>

(* The caller's context is cancelled while Fetch runs. *)
FetchCancel ==
    /\ fetchPc \in {"loop", "wait", "doFetch", "inflight"}
    /\ ~fetchCtxDone
    /\ fetchCtxDone' = TRUE
    /\ fetchCancelAt' = <<[pc |-> fetchPc, requests |-> Len(fetchLog)]>>
    /\ UNCHANGED <<fetchPc, fetchMaxRetries, fetchRetryDelay, fetchAttempt,
                   fetchLastErr, fetchDelay, fetchLog, fetchResult>>
    /\ UNCHANGED <<evalVars, runnerVars, coordVars, loopVars, storeVars, slackVars, postVars, rateVars, onceVars, pageVars>>

---------------------------------------------------------------------------
(* notify: the Slack sink's buildSlackMessages and buildSlackMessage *)

slackMaxBlocks == 50
slackReservedBlocks == 2

(* Variant that reserves no block for the header and the context. *)
slackMaxTransitionsUnreserved == slackMaxBlocks

slackMaxTransitions == slackMaxBlocks - slackReservedBlocks

(* A block of a message: the header, the context, or the section of one
   transition. `part` is the "(part i/n)" of the header and the "Batch: i/n" of
   the context, <<>> without one. *)
Block(type, change, part) == [type |-> type, change |-> change, part |-> part]

partMarker(partIndex, partTotal) ==
    IF partTotal > 1 THEN <<partIndex, partTotal>> ELSE <<>>

buildTransitionBlock(change) == Block("section", change, <<>>)

buildSlackMessage(stack, changes, total, partIndex, partTotal) ==
    [Text |-> [stack |-> stack, total |-> total,
               part |-> partMarker(partIndex, partTotal)],
     Blocks |-> <<Block("header", 0, partMarker(partIndex, partTotal)),
                  Block("context", 0, partMarker(partIndex, partTotal))>>
                \o [k \in 1..Len(changes) |-> buildTransitionBlock(changes[k])]]

(* The loop `for i := 0; i < total; i += slackMaxTransitions`. *)
RECURSIVE chunksFrom(_, _, _, _)
chunksFrom(stack, changes, i, chunkTotal) ==
    LET total == Len(changes)
        end == IF i + slackMaxTransitions > total THEN total
               ELSE i + slackMaxTransitions
        partIndex == (i \div slackMaxTransitions) + 1
    IN IF i >= total THEN <<>>
       ELSE <<buildSlackMessage(stack, SubSeq(changes, i + 1, end), total,
                                partIndex, chunkTotal)>>
            \o chunksFrom(stack, changes, i + slackMaxTransitions, chunkTotal)

buildSlackMessages(stack, changes) ==
    IF Len(changes) = 0 THEN <<>>
    ELSE IF slackMaxTransitions <= 0
    THEN <<buildSlackMessage(stack, changes, Len(changes), 1, 1)>>
    ELSE chunksFrom(stack, changes, 0,
                    (Len(changes) + slackMaxTransitions - 1) \div slackMaxTransitions)

(* SlackNotifier.Notify: an empty stack name is reported as "default". *)
stackNameOf(stack) == IF stack = "" THEN "default" ELSE stack

(* Inputs: n transitions, numbered in ascending or in descending order. *)
Ascending(n) == [k \in 1..n |-> k]
Descending(n) == [k \in 1..n |-> n + 1 - k]
SlackInputs == {Ascending(n) : n \in 0..MaxTransitions}
                  \cup {Descending(n) : n \in 0..MaxTransitions}

SlackIdle ==
    /\ slackPc = "off"
    /\ slackStack = ""
    /\ slackTransitions = <<>>
    /\ slackMessages = <<>>

(* Notify up to the messages it is going to post. *)
SlackBuild ==
    /\ slackPc = "input"
    /\ slackMessages' = buildSlackMessages(stackNameOf(slackStack), slackTransitions)
    /\ slackPc' = "built"
    /\ UNCHANGED <<slackStack, slackTransitions>>
    /\ UNCHANGED <<evalVars, runnerVars, coordVars, loopVars, storeVars, fetchVars, postVars, rateVars, onceVars, pageVars>>

---------------------------------------------------------------------------
(* notify: httpPoster.postWithRetry, postOnce, parseRetryAfter *)

(* time.Duration is a signed 64-bit count of nanoseconds and time.Second is
   10^9 of them. The model counts time in units of a quarter of a second and
   scales the width of a duration down to DurationBits bits, so that the
   seconds a Retry-After header can carry exceed what a duration can hold, as
   they do in the program. *)
Second == 4
MinDuration == -(2 ^ (DurationBits - 1))
MaxDuration == 2 ^ (DurationBits - 1) - 1

(* Integer arithmetic on durations wraps around. *)
WrapDuration(x) == ((x - MinDuration) % (2 ^ DurationBits)) + MinDuration

(* The timing of the poster (timingConfig, set through WithSlackTiming):
   backoffInitial 1 s, backoffMax 2 s, backoffMaxElapsed 4 s. *)
backoffInitial == Second
backoffMax == 2 * Second
backoffMaxElapsed == 4 * Second

(* The clock of the model stops advancing here. *)
ClockCap == 2 * backoffMaxElapsed + MaxDuration

(* Retry-After header values: absent, an integer that strconv.Atoi accepts,
   an HTTP-date (given by its distance from now, in units), anything else. *)
RetryAfter(form, value) == [form |-> form, value |-> value]
NoRetryAfter == RetryAfter("absent", 0)
SecondsChoices ==
    (-1..2) \cup {MaxDuration \div Second + 1,
                  (2 ^ DurationBits) \div Second,
                  (2 ^ DurationBits) \div Second + 1}
RetryAfterChoices ==
    {NoRetryAfter, RetryAfter("garbage", 0)}
        \cup {RetryAfter("seconds", s) : s \in SecondsChoices}
        \cup {RetryAfter("date", d) : d \in {-Second, 0, Second}}

(* parseRetryAfter: <<duration, ok>>. *)
parseRetryAfter(h) ==
    IF h.form = "absent" THEN <<0, FALSE>>
    ELSE IF h.form = "seconds"
    THEN IF h.value <= 0 THEN <<0, FALSE>>
         ELSE <<WrapDuration(h.value * Second), TRUE>>
    ELSE IF h.form = "date"
    THEN IF h.value <= 0 THEN <<0, FALSE>> ELSE <<h.value, TRUE>>
    ELSE <<0, FALSE>>

(* A response: its status code (0 when client.Do failed) and header. *)
Response(status, header) == [status |-> status, header |-> header]
NoResponse == Response(-1, NoRetryAfter)
NetworkError == Response(0, NoRetryAfter)
Responses(done) ==
    IF done THEN {NetworkError}
    ELSE {NetworkError}
            \cup {Response(s, NoRetryAfter) : s \in {200, 302, 400, 503}}
            \cup {Response(429, h) : h \in RetryAfterChoices}

(* The error of postOnce: nil, retryAfterError{Duration}, retryableError, or a
   plain error. *)
PostErr(kind, duration) == [kind |-> kind, Duration |-> duration]
PostNil == PostErr("nil", 0)
PostCtxErr == PostErr("context canceled", 0)

postOnce(resp) ==
    IF resp.status = 0 THEN PostErr("retryable", 0)
    ELSE IF resp.status >= 200 /\ resp.status < 300 THEN PostNil
    ELSE IF resp.status = 429
    THEN IF parseRetryAfter(resp.header)[2]
         THEN PostErr("retryAfter", parseRetryAfter(resp.header)[1])
         ELSE PostErr("retryable", 0)
    ELSE IF resp.status >= 500 THEN PostErr("retryable", 0)
    ELSE PostErr("request failed", 0)

(* backoff.ExponentialBackOff with the default multiplier 1.5 and
   randomization factor 0.5. Stop is modelled as -1. *)
BackoffStop == -1

randomized(interval) ==
    {interval - interval \div 2, interval, interval + interval \div 2}

incrementCurrentInterval(interval) ==
    IF 3 * interval >= 2 * backoffMax THEN backoffMax ELSE (3 * interval) \div 2

(* NextBackOff: the waits it can return after `elapsed`. Releases of the
   library stop when the elapsed time exceeds MaxElapsedTime, the later ones
   already when the elapsed time plus the wait exceeds it. *)
NextBackOff(elapsed, interval) ==
    {IF elapsed > backoffMaxElapsed THEN BackoffStop ELSE w :
        w \in randomized(interval)}
    \cup {IF elapsed + w > backoffMaxElapsed THEN BackoffStop ELSE w :
            w \in randomized(interval)}

(* The wait postWithRetry chooses for an error of postOnce. *)
Wait(kind, d) == [kind |-> kind, d |-> d]
NoWait == Wait("none", 0)

(* Variant that consults the backoff after a retryAfterError as well. *)
waitsAfterBounded(err, elapsed, interval) ==
    IF err.kind = "retryAfter"
    THEN {IF BackoffStop \in NextBackOff(elapsed, interval)
          THEN Wait("stop", 0) ELSE Wait("retryAfter", err.Duration)}
    ELSE IF err.kind = "retryable"
    THEN {IF w = BackoffStop THEN Wait("stop", 0) ELSE Wait("backoff", w) :
            w \in NextBackOff(elapsed, interval)}
    ELSE {Wait("return", 0)}

(* Lines 101-121: nil and plain errors are returned, a retryAfterError sleeps
   its Duration, a retryableError sleeps what NextBackOff says unless that is
   Stop. *)
waitsAfter(err, elapsed, interval) ==
    IF err.kind = "retryAfter" THEN {Wait("retryAfter", err.Duration)}
    ELSE IF err.kind = "retryable"
    THEN {IF w = BackoffStop THEN Wait("stop", 0) ELSE Wait("backoff", w) :
            w \in NextBackOff(elapsed, interval)}
    ELSE {Wait("return", 0)}

Advance(now, d) == IF now + d > ClockCap THEN ClockCap ELSE now + d

PostIdle ==
    /\ postPc = "off"
    /\ postNow = 0
    /\ postInterval = backoffInitial
    /\ postCtxDone = FALSE
    /\ postResp = NoResponse
    /\ postWait = NoWait
    /\ postSlept = 0
    /\ postResult = <<>>

(* postOnce is called: the request goes out. *)
PostSend ==
    /\ postPc = "send"
    /\ postPc' = "inflight"
    /\ UNCHANGED <<postNow, postInterval, postCtxDone, postResp, postWait,
                   postSlept, postResult>>
    /\ UNCHANGED <<evalVars, runnerVars, coordVars, loopVars, storeVars, fetchVars,
                   slackVars, rateVars, onceVars, pageVars>>

(* postOnce returns after some time and postWithRetry decides what to do. *)
PostRespond ==
    /\ postPc = "inflight"
    /\ \E took \in 1..MaxAttemptTime, resp \in Responses(postCtxDone) :
          LET now == Advance(postNow, took)
              err == postOnce(resp)
          IN \E wait \in waitsAfter(err, now, postInterval) :
                /\ postNow' = now
                /\ postResp' = resp
                /\ postWait' = wait
                /\ postInterval' = IF err.kind = "retryable"
                                   THEN incrementCurrentInterval(postInterval)
                                   ELSE postInterval
                /\ IF wait.kind \in {"return", "stop"}
                   THEN /\ postResult' = <<err>>
                        /\ postPc' = "returned"
                   ELSE /\ postPc' = "sleep"
                        /\ UNCHANGED postResult
    /\ UNCHANGED <<postCtxDone, postSlept>>
    /\ UNCHANGED <<evalVars, runnerVars, coordVars, loopVars, storeVars, fetchVars,
                   slackVars, rateVars, onceVars, pageVars>>

(* sleepWithContext: the timer fires (at once for a wait that is not
   positive). *)
PostSleepDone ==
    /\ postPc = "sleep"
    /\ ~postCtxDone \/ postWait.d <= 0
    /\ LET slept == IF postWait.d > 0 THEN postWait.d ELSE 0
       IN /\ postNow' = Advance(postNow, slept)
          /\ postSlept' = slept
    /\ postPc' = "send"
    /\ UNCHANGED <<postInterval, postCtxDone, postResp, postWait, postResult>>
    /\ UNCHANGED <<evalVars, runnerVars, coordVars, loopVars, storeVars, fetchVars,
                   slackVars, rateVars, onceVars, pageVars>>

(* sleepWithContext: the context is done first. *)
PostSleepCancelled ==
    /\ postPc = "sleep"
    /\ postCtxDone
    /\ postResult' = <<PostCtxErr>>
    /\ postPc' = "returned"
    /\ UNCHANGED <<postNow, postInterval, postCtxDone, postResp, postWait, postSlept>>
    /\ UNCHANGED <<evalVars, runnerVars, coordVars, loopVars, storeVars, fetchVars,
                   slackVars, rateVars, onceVars, pageVars>>

(* The caller's context is cancelled. *)
PostCancel ==
    /\ postPc \in {"send", "inflight", "sleep"}
    /\ ~postCtxDone
    /\ postCtxDone' = TRUE
    /\ UNCHANGED <<postPc, postNow, postInterval, postResp, postWait, postSlept,
                   postResult>>
    /\ UNCHANGED <<evalVars, runnerVars, coordVars, loopVars, storeVars, fetchVars,
                   slackVars, rateVars, onceVars, pageVars>>

---------------------------------------------------------------------------
(* notify: SlackNotifier.Notify up to the post, httpPoster.waitForRateLimit and
   getLimiter over rate.Limiter (burst 1, one token per rateInterval) *)

(* defaultTiming: rateInterval 1 s, rateBurst 1. Tokens are counted in units
   of 1/rateInterval of a token, so that one time unit refills one unit. *)
rateInterval == Second
rateBurst == 1
FullBucket == rateBurst * rateInterval

Callers == 1..MaxCallers
RateStacks == {"", "alpha"}

NoDeadline == -1
NoTime == -1

(* Variant with one limiter for all stacks. *)
limiterKeyShared(stack) == "default"

(* The key of n.limiters: the stack name Notify passes on. *)
limiterKey(stack) == stackNameOf(stack)

LimiterKeys == {stackNameOf(s) : s \in RateStacks}

(* rate.NewLimiter(rate.Every(rateInterval), rateBurst): a full bucket. *)
Limiter(tokens, last, lastEvent) ==
    [tokens |-> tokens, last |-> last, lastEvent |-> lastEvent]
NewLimiter == Limiter(FullBucket, 0, 0)

(* getLimiter: the limiter of the key, created on first use. *)
getLimiter(all, key) == IF all[key] = <<>> THEN NewLimiter ELSE all[key][1]

(* Limiter.advance: the tokens at `now`. *)
advance(lim, now) ==
    IF lim.tokens + (now - lim.last) > FullBucket THEN FullBucket
    ELSE lim.tokens + (now - lim.last)

(* Limiter.reserveN(now, 1, waitLimit): ok, the time to act and the limiter
   afterwards. waitLimit = NoTime stands for no limit. *)
reserve(lim, now, waitLimit) ==
    LET tokens == advance(lim, now) - rateInterval
        wait == IF tokens < 0 THEN -tokens ELSE 0
        ok == waitLimit = NoTime \/ wait <= waitLimit
    IN [ok |-> ok,
        timeToAct |-> now + wait,
        lim |-> IF ok THEN Limiter(tokens, now, now + wait) ELSE lim]

(* Reservation.CancelAt(now) of a reservation of one token that acts at
   timeToAct: the token is given back unless later reservations were built on
   it. *)
cancelReservation(lim, timeToAct, now) ==
    LET restore == rateInterval - (lim.lastEvent - timeToAct)
        tokens == IF advance(lim, now) + restore > FullBucket THEN FullBucket
                  ELSE advance(lim, now) + restore
        prevEvent == timeToAct - rateInterval
    IN IF timeToAct < now \/ restore <= 0 THEN lim
       ELSE Limiter(tokens, now,
                    IF timeToAct = lim.lastEvent /\ prevEvent >= now
                    THEN prevEvent ELSE lim.lastEvent)

(* Errors of Notify. *)
RateNil == "nil"
RateCanceled == "context canceled"
RateDeadlineExceeded == "context deadline exceeded"
RateWouldExceed == "rate: Wait(n=1) would exceed context deadline"

(* ctx.Err() of a call at `now`. *)
ctxErrAt(call, now) ==
    IF call.cancelled THEN RateCanceled
    ELSE IF call.deadline # NoDeadline /\ now >= call.deadline
    THEN RateDeadlineExceeded
    ELSE RateNil

(* The contexts of a call made at `now`: <<deadline, cancelled already>>. *)
ContextChoices(now) ==
    {<<NoDeadline, FALSE>>, <<NoDeadline, TRUE>>, <<now + 1, FALSE>>,
     <<now + rateInterval, FALSE>>}

Call(pc_, stack, deadline, cancelled) ==
    [pc |-> pc_, stack |-> stack, deadline |-> deadline, cancelled |-> cancelled,
     calledAt |-> NoTime, timeToAct |-> NoTime, grantedAt |-> NoTime,
     err |-> RateNil, posted |-> FALSE]
NoCall == Call("idle", "", NoDeadline, FALSE)

RateIdle ==
    /\ rateNow = 0
    /\ limiters = [k \in LimiterKeys |-> <<>>]
    /\ calls = [c \in Callers |-> NoCall]

(* Notify is called with a stack and a context (with or without a deadline,
   possibly done already) and goes through limiter.Wait up to its timer. The
   calls are numbered in the order in which they are made. *)
RateCall(c) ==
    /\ calls[c].pc = "idle"
    /\ \A b \in Callers : b < c => calls[b].pc # "idle"
    /\ \E stack \in RateStacks, ctx \in ContextChoices(rateNow) :
          LET deadline == ctx[1]
              cancelled == ctx[2]
              call == [Call("wait", stack, deadline, cancelled) EXCEPT
                          !.calledAt = rateNow]
              key == limiterKey(stack)
              lim == getLimiter(limiters, key)
              r == reserve(lim, rateNow,
                           IF deadline = NoDeadline THEN NoTime
                           ELSE deadline - rateNow)
          IN IF ctxErrAt(call, rateNow) # RateNil
             THEN /\ calls' = [calls EXCEPT ![c] =
                        [call EXCEPT !.pc = "returned",
                                     !.err = ctxErrAt(call, rateNow)]]
                  /\ limiters' = [limiters EXCEPT ![key] = <<lim>>]
             ELSE IF ~r.ok
             THEN /\ calls' = [calls EXCEPT ![c] =
                        [call EXCEPT !.pc = "returned", !.err = RateWouldExceed]]
                  /\ limiters' = [limiters EXCEPT ![key] = <<lim>>]
             ELSE /\ calls' = [calls EXCEPT ![c] =
                        [call EXCEPT !.timeToAct = r.timeToAct,
                                     !.pc = IF r.timeToAct = rateNow
                                            THEN "post" ELSE "wait",
                                     !.grantedAt = IF r.timeToAct = rateNow
                                                   THEN rateNow ELSE NoTime]]
                  /\ limiters' = [limiters EXCEPT ![key] = <<r.lim>>]
    /\ UNCHANGED rateNow
    /\ UNCHANGED <<evalVars, runnerVars, coordVars, loopVars, storeVars, fetchVars,
                   slackVars, postVars, onceVars, pageVars>>

(* limiter.Wait: the timer of the reservation fires. *)
RateTimer(c) ==
    /\ calls[c].pc = "wait"
    /\ rateNow >= calls[c].timeToAct
    /\ calls' = [calls EXCEPT ![c].pc = "post", ![c].grantedAt = rateNow]
    /\ UNCHANGED <<rateNow, limiters>>
    /\ UNCHANGED <<evalVars, runnerVars, coordVars, loopVars, storeVars, fetchVars,
                   slackVars, postVars, onceVars, pageVars>>

(* limiter.Wait: the context is done first; the reservation is cancelled and
   Notify returns ctx.Err(). *)
RateCtxDone(c) ==
    /\ calls[c].pc = "wait"
    /\ ctxErrAt(calls[c], rateNow) # RateNil
    /\ LET key == limiterKey(calls[c].stack)
       IN limiters' = [limiters EXCEPT ![key] =
             <<cancelReservation(limiters[key][1], calls[c].timeToAct, rateNow)>>]
    /\ calls' = [calls EXCEPT ![c].pc = "returned",
                              ![c].err = ctxErrAt(calls[c], rateNow)]
    /\ UNCHANGED rateNow
    /\ UNCHANGED <<evalVars, runnerVars, coordVars, loopVars, storeVars, fetchVars,
                   slackVars, postVars, onceVars, pageVars>>

(* The messages are built and posted. *)
RatePost(c) ==
    /\ calls[c].pc = "post"
    /\ calls' = [calls EXCEPT ![c].pc = "returned", ![c].posted = TRUE]
    /\ UNCHANGED <<rateNow, limiters>>
    /\ UNCHANGED <<evalVars, runnerVars, coordVars, loopVars, storeVars, fetchVars,
                   slackVars, postVars, onceVars, pageVars>>

(* The caller cancels the context of a call that waits. *)
RateCancel(c) ==
    /\ calls[c].pc = "wait"
    /\ ~calls[c].cancelled
    /\ calls' = [calls EXCEPT ![c].cancelled = TRUE]
    /\ UNCHANGED <<rateNow, limiters>>
    /\ UNCHANGED <<evalVars, runnerVars, coordVars, loopVars, storeVars, fetchVars,
                   slackVars, postVars, onceVars, pageVars>>

(* Time passes. *)
RateTick ==
    /\ rateNow < MaxRateTime
    /\ rateNow' = rateNow + 1
    /\ UNCHANGED <<limiters, calls>>
    /\ UNCHANGED <<evalVars, runnerVars, coordVars, loopVars, storeVars, fetchVars,
                   slackVars, postVars, onceVars, pageVars>>

---------------------------------------------------------------------------
(* runner: defaultRunOnce from the compose fetch to evaluateAndPersist *)

(* Compose files the server may hold: two that parse and one that does not. *)
ComposeV1 == "services: {api: {image: app:v1}}"
ComposeV2 == "services: {api: {image: app:v2}}"
ComposeBroken == "services: ["
EmptyBody == ""
ComposeBodies == {ComposeV1, ComposeV2, ComposeBroken}

(* ETags and fingerprints are <<kind, body>>; <<>> is the empty string. *)
NoETag == <<>>
NoHash == <<>>

(* The validator a server that sends ETags derives from the document. *)
etagOf(body) == <<"etag", body>>

(* compose.Fingerprint: <<fingerprint, error>>; SHA-256 is taken as
   injective on the bodies above. *)
Fingerprint(body) ==
    IF body = EmptyBody THEN <<NoHash, "compose body is empty">>
    ELSE <<<<"sha256", body>>, NoError>>

(* compose.ParseDesiredState: <<DesiredState.Services, error>>. *)
ParseDesiredState(body) ==
    IF body = ComposeV1
    THEN <<[n \in {"api"} |-> DesiredService(ImageV1, "replicated", 1, <<>>, <<>>)],
           NoError>>
    ELSE IF body = ComposeV2
    THEN <<[n \in {"api"} |-> DesiredService(ImageV2, "replicated", 1, <<>>, <<>>)],
           NoError>>
    ELSE <<[n \in {} |-> 0], "parse error">>

(* compose.FetchResult *)
FetchResult(body, etag, notModified) ==
    [Body |-> body, ETag |-> etag, NotModified |-> notModified]

(* What the server answers to a GET that carries previousETag (doFetch). *)
serverReply(previousETag, doc, etags) ==
    IF etags /\ previousETag # NoETag /\ previousETag = etagOf(doc)
    THEN FetchResult(EmptyBody, etagOf(doc), TRUE)
    ELSE FetchResult(doc, IF etags THEN etagOf(doc) ELSE NoETag, FALSE)

(* `if result.ETag != "" { r.composeETag = result.ETag }` *)
rememberETag(etag, result) == IF result.ETag # NoETag THEN result.ETag ELSE etag

(* Variant that parses whenever a body was received. *)
skipsReparseOnlyNotModified(result, fingerprint, hash) == result.NotModified

(* Reparsing is skipped on NotModified and on an unchanged fingerprint. *)
skipsReparse(result, fingerprint, hash) ==
    result.NotModified \/ fingerprint = hash

(* Variant that counts the failure twice. *)
IncDockerAPIErrorsTwice(set, counter) == IF set THEN counter + 2 ELSE counter

(* `if r.metrics != nil { r.metrics.IncDockerAPIErrors() }` *)
IncDockerAPIErrors(set, counter) == IF set THEN counter + 1 ELSE counter

NoDesiredState == <<>>

(* What a cycle did. *)
OnceLog(etagSent, result, hashBefore, heldBefore, parsed, actualErr, evaluatedWith,
        errorsBefore, returned) ==
    [etagSent |-> etagSent, result |-> result, hashBefore |-> hashBefore,
     heldBefore |-> heldBefore, parsed |-> parsed, actualErr |-> actualErr,
     evaluatedWith |-> evaluatedWith, errorsBefore |-> errorsBefore,
     returned |-> returned]

NoResult == FetchResult(EmptyBody, NoETag, FALSE)
NoOnceLog ==
    OnceLog(NoETag, NoResult, NoHash, NoDesiredState, FALSE, FALSE, NoDesiredState, 0,
            CycleOk)

OnceIdle ==
    /\ composeETag = NoETag
    /\ composeHash = NoHash
    /\ lastDesiredState = NoDesiredState
    /\ metricsSet = FALSE
    /\ dockerAPIErrors = 0
    /\ serverDoc = EmptyBody
    /\ serverETags = FALSE
    /\ onceCycles = 0
    /\ parsedFrom = EmptyBody
    /\ onceLog = NoOnceLog

(* One cycle of defaultRunOnce under a live context, with fetcher, swarm
   client and state store configured. fetchFails, actualFails and
   persistFails say which of the calls out return an error. *)
OnceCycle(fetchFails, actualFails, persistFails) ==
    LET result == serverReply(composeETag, serverDoc, serverETags)
        etag == rememberETag(composeETag, result)
        fp == IF result.NotModified THEN <<NoHash, NoError>>
              ELSE Fingerprint(result.Body)
        skip == skipsReparse(result, fp[1], composeHash)
        parse == ParseDesiredState(result.Body)
        held == IF skip \/ parse[2] # NoError THEN lastDesiredState
                ELSE <<parse[1]>>
        logOf(res, parsed, actualErr, evaluatedWith, returned) ==
            OnceLog(composeETag, res, composeHash, lastDesiredState, parsed,
                    actualErr, evaluatedWith, dockerAPIErrors, returned)
        log(parsed, actualErr, evaluatedWith, returned) ==
            logOf(result, parsed, actualErr, evaluatedWith, returned)
    IN
    /\ onceCycles < MaxOnceCycles
    /\ onceCycles' = onceCycles + 1
    /\ UNCHANGED <<metricsSet, serverDoc, serverETags>>
    /\ IF fetchFails
       THEN /\ onceLog' = logOf(NoResult, FALSE, FALSE, NoDesiredState,
                                  wrapRuntime("compose fetch"))
            /\ UNCHANGED <<composeETag, composeHash, lastDesiredState, parsedFrom,
                           dockerAPIErrors>>
       ELSE /\ composeETag' = etag
            /\ IF ~result.NotModified /\ fp[2] # NoError
               THEN /\ onceLog' = log(FALSE, FALSE, NoDesiredState,
                                      wrapRuntime("compose fingerprint"))
                    /\ UNCHANGED <<composeHash, lastDesiredState, parsedFrom,
                                   dockerAPIErrors>>
               ELSE /\ composeHash' = IF skip THEN composeHash ELSE fp[1]
                    /\ lastDesiredState' = held
                    /\ parsedFrom' = IF skip \/ parse[2] # NoError THEN parsedFrom
                                     ELSE result.Body
                    /\ IF ~skip /\ parse[2] # NoError
                       THEN /\ onceLog' = log(TRUE, FALSE, NoDesiredState,
                                              wrapRuntime("compose parse"))
                            /\ UNCHANGED dockerAPIErrors
                       ELSE IF actualFails
                       THEN /\ dockerAPIErrors' =
                                  IncDockerAPIErrors(metricsSet, dockerAPIErrors)
                            /\ onceLog' = log(~skip, TRUE, NoDesiredState,
                                              wrapRuntime("swarm actual state"))
                       ELSE /\ UNCHANGED dockerAPIErrors
                            /\ onceLog' =
                                  log(~skip, FALSE, held,
                                      IF held # NoDesiredState /\ persistFails
                                      THEN wrapRuntime("state evaluation")
                                      ELSE CycleOk)
    /\ UNCHANGED <<evalVars, runnerVars, coordVars, loopVars, storeVars, fetchVars, slackVars, postVars, rateVars, pageVars>>

(* The compose file on the server is replaced. *)
ServerUpdate ==
    /\ onceCycles < MaxOnceCycles
    /\ \E doc \in ComposeBodies \ {serverDoc} : serverDoc' = doc
    /\ UNCHANGED <<composeETag, composeHash, lastDesiredState, metricsSet,
                   dockerAPIErrors, serverETags, onceCycles, parsedFrom, onceLog>>
    /\ UNCHANGED <<evalVars, runnerVars, coordVars, loopVars, storeVars, fetchVars, slackVars, postVars, rateVars, pageVars>>

---------------------------------------------------------------------------
(* swarm: paginateByIDPrefix, paginateByIDPrefixDepth, appendUnique *)

(* The page size and the ID alphabet are scaled down: 2 items for 1000 and
   two characters for 36; IDs have one character more than the deepest
   prefix. *)
maxListPageSize == 2
maxIDPrefixDepth == 2
idPrefixCharacters == <<"0", "a">>

IDLength == maxIDPrefixDepth + 1

(* Every ID, in ascending order, which is the order the API lists in. *)
RECURSIVE IDsOfLength(_)
IDsOfLength(n) ==
    IF n = 0 THEN <<<<>>>>
    ELSE LET shorter == IDsOfLength(n - 1)
             with(i) == [j \in 1..Len(shorter) |->
                            <<idPrefixCharacters[i]>> \o shorter[j]]
             RECURSIVE all(_)
             all(i) == IF i > Len(idPrefixCharacters) THEN <<>>
                       ELSE with(i) \o all(i + 1)
         IN all(1)

AllIDs == IDsOfLength(IDLength)

HasPrefix(id, prefix) ==
    Len(prefix) <= Len(id) /\ SubSeq(id, 1, Len(prefix)) = prefix

RECURSIVE SelectIDs(_, _, _)
SelectIDs(ids, data, prefix) ==
    IF ids = <<>> THEN <<>>
    ELSE IF Head(ids) \in data /\ HasPrefix(Head(ids), prefix)
         THEN <<Head(ids)>> \o SelectIDs(Tail(ids), data, prefix)
         ELSE SelectIDs(Tail(ids), data, prefix)

(* listFn with the filter id=prefix: the items whose ID starts with the
   prefix; an API that pages returns the first maxListPageSize of them. *)
listFn(data, capped, prefix) ==
    LET matching == SelectIDs(AllIDs, data, prefix)
    IN IF capped /\ Len(matching) > maxListPageSize
       THEN SubSeq(matching, 1, maxListPageSize)
       ELSE matching

(* appendUnique: `seen` holds the IDs of the items of dst. *)
RECURSIVE appendUnique(_, _)
appendUnique(dst, items) ==
    IF items = <<>> THEN dst
    ELSE IF Head(items) = <<>> \/ Head(items) \in Range(dst)
         THEN appendUnique(dst, Tail(items))
         ELSE appendUnique(dst \o <<Head(items)>>, Tail(items))

(* Variant that partitions a prefix whose listing fills a page. *)
usesPageWhenNotFull(count, depth) ==
    count < maxListPageSize \/ depth >= maxIDPrefixDepth

(* `len(items) <= maxListPageSize || depth >= maxIDPrefixDepth`: the listing
   is returned as it is. *)
usesPage(count, depth) ==
    count <= maxListPageSize \/ depth >= maxIDPrefixDepth

(* paginateByIDPrefixDepth: [items, queries], queries being the prefixes
   listed on the way. *)
RECURSIVE paginateByIDPrefixDepth(_, _, _, _)
paginateByIDPrefixDepth(data, capped, prefix, depth) ==
    LET items == listFn(data, capped, prefix)
        RECURSIVE children(_, _)
        children(i, acc) ==
            IF i > Len(idPrefixCharacters) THEN acc
            ELSE LET child == paginateByIDPrefixDepth(
                                 data, capped, prefix \o <<idPrefixCharacters[i]>>,
                                 depth + 1)
                 IN children(i + 1,
                             [items |-> appendUnique(acc.items, child.items),
                              queries |-> acc.queries \cup child.queries])
    IN IF usesPage(Len(items), depth)
       THEN [items |-> items, queries |-> {prefix}]
       ELSE children(1, [items |-> <<>>, queries |-> {prefix}])

(* paginateByIDPrefix: one partition for every character. *)
paginateByIDPrefix(data, capped) ==
    LET RECURSIVE prefixes(_, _)
        prefixes(i, acc) ==
            IF i > Len(idPrefixCharacters) THEN acc
            ELSE LET part == paginateByIDPrefixDepth(
                                data, capped, <<idPrefixCharacters[i]>>, 1)
                 IN prefixes(i + 1,
                             [items |-> appendUnique(acc.items, part.items),
                              queries |-> acc.queries \cup part.queries])
    IN prefixes(1, [items |-> <<>>, queries |-> {}])

PageIdle ==
    /\ pagePc = "off"
    /\ pageData = {}
    /\ pageCapped = FALSE
    /\ pageItems = <<>>
    /\ pageQueries = {}

(* paginateByIDPrefix is applied to the API (no listing fails). *)
Paginate ==
    /\ pagePc = "input"
    /\ LET res == paginateByIDPrefix(pageData, pageCapped)
       IN /\ pageItems' = res.items
          /\ pageQueries' = res.queries
    /\ pagePc' = "done"
    /\ UNCHANGED <<pageData, pageCapped>>
    /\ UNCHANGED <<evalVars, runnerVars, coordVars, loopVars, storeVars, fetchVars, slackVars, postVars, rateVars, onceVars>>

---------------------------------------------------------------------------
(* Specifications *)

InitEval ==
    /\ PageIdle
    /\ OnceIdle
    /\ RateIdle
    /\ PostIdle
    /\ SlackIdle
    /\ FetchIdle
    /\ InitEvalInputs
    /\ LoopIdle
    /\ StoreIdle
    /\ RunnerIdle
    /\ stabilization = 1
    /\ CoordIdle

NextEval == Evaluate

SpecEval == InitEval /\ [][NextEval]_vars

StabRunners == {AllStackNames[1]}

(* The state file a previous process left behind: none, or the snapshot of
   one first-run cycle that found api healthy (2 of 2 replicas running). *)
SeedInput ==
    <<[n \in {"api"} |-> DesiredService(ImageV1, "replicated", 2, <<>>, <<>>)],
      [n \in {"api"} |-> ActualService("api", ImageV1, 2, 2, <<>>, <<>>, "")]>>

SeedSnapshot(stab_) ==
    StackSnapshot(
        stabilizeTransitions(stab_, NoSnapshot,
            EvaluateStackHealth(SeedInput[1], SeedInput[2], TRUE)).updatedServices,
        0)

InitRunner ==
    /\ PageIdle
    /\ OnceIdle
    /\ RateIdle
    /\ PostIdle
    /\ SlackIdle
    /\ FetchIdle
    /\ EvalIdle
    /\ LoopIdle
    /\ StoreIdle
    /\ stabilization \in 0..MaxStabilization
    /\ \/ RunnerIdle
       \/ /\ stateFile = [k \in StabRunners |-> SeedSnapshot(stabilization)]
          /\ lastSaved = [r \in Stacks |->
                IF r \in StabRunners THEN <<SeedSnapshot(stabilization)>>
                ELSE NoSnapshot]
          /\ stateMu = NoOwner
          /\ pc = [r \in Stacks |-> "idle"]
          /\ cycles = [r \in Stacks |-> 0]
          /\ stackHealth = [r \in Stacks |-> NoHealth]
          /\ loaded = [r \in Stacks |-> [k \in {} |-> 0]]
          /\ snapshot = [r \in Stacks |-> NoSnapshot]
          /\ transitions = [r \in Stacks |-> <<>>]
          /\ notified = [r \in Stacks |-> <<>>]
          /\ cycleErr = [r \in Stacks |-> NoError]
          /\ lastInput = [r \in Stacks |-> NoInput]
          /\ crossed = [r \in Stacks |-> {}]
          /\ before = [r \in Stacks |-> NoSnapshot]
          /\ notifyErr = [r \in Stacks |-> NoError]
          /\ owed = [r \in Stacks |-> {}]
          /\ undelivered = [r \in Stacks |-> {}]
          /\ fresh = [r \in Stacks |-> {}]
    /\ CoordIdle

NextStab ==
    \E r \in StabRunners :
        \/ StartCycle(r, StabInputs, MaxCycles)
        \/ CycleFails(r, MaxCycles)
        \/ Lock(r)
        \/ Load(r)
        \/ StabilizeAndSave(r)
        \/ Unlock(r)
        \/ Notify(r)

SpecStab == InitRunner /\ [][NextStab]_vars

(* The state file an earlier release left behind: its ServiceHealth has no
   consecutiveCycles and no lastNotifiedStatus, which decode as 0 and "". *)
LegacySnapshot ==
    StackSnapshot(
        [n \in {"api"} |->
            [EvaluateStackHealth(SeedInput[1], SeedInput[2], TRUE).Services[n]
                EXCEPT !.ConsecutiveCycles = 0, !.LastNotifiedStatus = NoStatus]],
        0)

InitLegacy ==
    /\ PageIdle
    /\ OnceIdle
    /\ RateIdle
    /\ PostIdle
    /\ SlackIdle
    /\ FetchIdle
    /\ EvalIdle
    /\ LoopIdle
    /\ StoreIdle
    /\ CoordIdle
    /\ stabilization \in 0..MaxStabilization
    /\ stateFile = [k \in StabRunners |-> LegacySnapshot]
    /\ lastSaved = [r \in Stacks |-> NoSnapshot]
    /\ stateMu = NoOwner
    /\ pc = [r \in Stacks |-> "idle"]
    /\ cycles = [r \in Stacks |-> 0]
    /\ stackHealth = [r \in Stacks |-> NoHealth]
    /\ loaded = [r \in Stacks |-> [k \in {} |-> 0]]
    /\ snapshot = [r \in Stacks |-> NoSnapshot]
    /\ transitions = [r \in Stacks |-> <<>>]
    /\ notified = [r \in Stacks |-> <<>>]
    /\ cycleErr = [r \in Stacks |-> NoError]
    /\ lastInput = [r \in Stacks |-> NoInput]
    /\ crossed = [r \in Stacks |-> {}]
    /\ before = [r \in Stacks |-> NoSnapshot]
    /\ notifyErr = [r \in Stacks |-> NoError]
    /\ owed = [r \in Stacks |-> {}]
    /\ undelivered = [r \in Stacks |-> {}]
    /\ fresh = [r \in Stacks |-> {}]

SpecLegacy == InitLegacy /\ [][NextStab]_vars

NextEndless == \E r \in StabRunners : RunCycle(r, StabInputs)

(* The ticker of Runner.Run keeps ticking and a cycle ends: cycles go on
   forever. *)
SpecEndless ==
    /\ InitRunner
    /\ [][NextEndless]_vars
    /\ \A r \in StabRunners : WF_vars(RunCycle(r, StabInputs))

RECURSIVE SumCycles(_)
SumCycles(rs) ==
    IF rs = {} THEN 0
    ELSE LET r == CHOOSE x \in rs : TRUE IN cycles[r] + SumCycles(rs \ {r})

(* The runners together start at most MaxLockCycles cycles. *)
lockLimit(r) == cycles[r] + (MaxLockCycles - SumCycles(Stacks))

NextLock ==
    \E r \in Stacks :
        \/ StartCycle(r, LockInputs, lockLimit(r))
        \/ CycleFails(r, lockLimit(r))
        \/ Lock(r)
        \/ Load(r)
        \/ StabilizeAndSave(r)
        \/ Unlock(r)
        \/ Notify(r)

InitLock ==
    /\ PageIdle
    /\ OnceIdle
    /\ RateIdle
    /\ PostIdle
    /\ SlackIdle
    /\ FetchIdle
    /\ EvalIdle
    /\ LoopIdle
    /\ StoreIdle
    /\ RunnerIdle
    /\ stabilization \in 1..MaxStabilization
    /\ CoordIdle

SpecLock == InitLock /\ [][NextLock]_vars

InitCoord ==
    /\ PageIdle
    /\ OnceIdle
    /\ RateIdle
    /\ PostIdle
    /\ SlackIdle
    /\ FetchIdle
    /\ EvalIdle
    /\ LoopIdle
    /\ StoreIdle
    /\ RunnerIdle
    /\ stabilization = 1
    /\ mappings \in MappingLists
    /\ cfg \in Configs
    /\ coordPc = "idle"
    /\ cCancel = FALSE
    /\ cDone = FALSE
    /\ doneClosed = FALSE
    /\ ctxCancelled = FALSE
    /\ runCtxCancelled = FALSE
    /\ wg = 0
    /\ spawnPc = [s \in Stacks |-> "none"]
    /\ runnerCycles = [s \in Stacks |-> 0]
    /\ runners = {}
    /\ runnerErrors = [k \in {} |-> NoError]
    /\ runResult = NotReturned
    /\ stopPc = "idle"
    /\ stopCancel = FALSE
    /\ stopDone = FALSE
    /\ stopDuringRun = FALSE

NextCoord ==
    \/ RunEnter
    \/ RunPublish
    \/ \E s \in Stacks : RunSpawn(s)
    \/ RunWait
    \/ RunClear
    \/ RunReturn
    \/ \E s \in Stacks : SpawnRunner(s)
    \/ \E s \in Stacks : RunnerStart(s)
    \/ \E s \in Stacks : RunnerTick(s)
    \/ \E s \in Stacks : RunnerStop(s)
    \/ CancelContext
    \/ StopRead
    \/ StopCancel
    \/ StopReturn

SpecCoord == InitCoord /\ [][NextCoord]_vars

InitLoop ==
    /\ PageIdle
    /\ OnceIdle
    /\ RateIdle
    /\ PostIdle
    /\ SlackIdle
    /\ FetchIdle
    /\ EvalIdle
    /\ RunnerIdle
    /\ stabilization = 1
    /\ CoordIdle
    /\ StoreIdle
    /\ loopPc = "entry"
    /\ loopInterval \in {0, 1}
    /\ loopCtxDone = FALSE
    /\ tickerState = "none"
    /\ tickPending = FALSE
    /\ ticksReceived = 0
    /\ cycleLog = <<>>
    /\ errorLog = <<>>
    /\ loopResult = NotReturned

NextLoop ==
    \/ LoopEnter
    \/ LoopCycle
    \/ LoopMakeTicker
    \/ Tick
    \/ LoopReceiveTick
    \/ LoopDone
    \/ LoopCancel

(* Goroutines are scheduled and a cycle ends (every call it makes is bounded
   by a timeout or the context); select picks among its ready cases at
   random, so the ready ctx.Done() case is not passed over forever. *)
SpecLoop ==
    /\ InitLoop
    /\ [][NextLoop]_vars
    /\ WF_vars(LoopEnter)
    /\ WF_vars(LoopCycle)
    /\ WF_vars(LoopMakeTicker)
    /\ SF_vars(LoopDone)

InitStore ==
    /\ PageIdle
    /\ OnceIdle
    /\ RateIdle
    /\ PostIdle
    /\ SlackIdle
    /\ FetchIdle
    /\ EvalIdle
    /\ RunnerIdle
    /\ stabilization = 1
    /\ CoordIdle
    /\ LoopIdle
    /\ storePath \in InitialFiles
    /\ storeTemp = NoFile
    /\ savePc = "idle"
    /\ saveState = ZeroState
    /\ saveResult = NoError
    /\ saves = 0
    /\ storePrev = storePath
    /\ loadFrom = NoFile
    /\ loadResult = NoLoad

NextStore ==
    \/ SaveBegin
    \/ SaveStep
    \/ SaveFail
    \/ Interrupt
    \/ Restart
    \/ LoadFile

SpecStore == InitStore /\ [][NextStore]_vars

InitFetch ==
    /\ PageIdle
    /\ OnceIdle
    /\ RateIdle
    /\ PostIdle
    /\ SlackIdle
    /\ EvalIdle
    /\ RunnerIdle
    /\ CoordIdle
    /\ LoopIdle
    /\ StoreIdle
    /\ stabilization = 1
    /\ fetchPc = "loop"
    /\ fetchMaxRetries \in FetchRetryChoices
    /\ fetchRetryDelay \in FetchDelayChoices
    /\ fetchAttempt = 0
    /\ fetchLastErr = NilErr
    /\ fetchCtxDone = FALSE
    /\ fetchDelay = 0
    /\ fetchLog = <<>>
    /\ fetchCancelAt = <<>>
    /\ fetchResult = NoFetchResult

NextFetch ==
    \/ FetchLoop
    \/ FetchWait
    \/ FetchSend
    \/ FetchRespond
    \/ FetchCancel

SpecFetch == InitFetch /\ [][NextFetch]_vars

InitSlack ==
    /\ PageIdle
    /\ OnceIdle
    /\ RateIdle
    /\ PostIdle
    /\ EvalIdle
    /\ RunnerIdle
    /\ CoordIdle
    /\ LoopIdle
    /\ StoreIdle
    /\ FetchIdle
    /\ stabilization = 1
    /\ slackPc = "input"
    /\ slackStack \in {"", "alpha"}
    /\ slackTransitions \in SlackInputs
    /\ slackMessages = <<>>

NextSlack == SlackBuild

SpecSlack == InitSlack /\ [][NextSlack]_vars

InitPost ==
    /\ PageIdle
    /\ OnceIdle
    /\ RateIdle
    /\ EvalIdle
    /\ RunnerIdle
    /\ CoordIdle
    /\ LoopIdle
    /\ StoreIdle
    /\ FetchIdle
    /\ SlackIdle
    /\ stabilization = 1
    /\ postPc = "send"
    /\ postNow = 0
    /\ postInterval = backoffInitial
    /\ postCtxDone = FALSE
    /\ postResp = NoResponse
    /\ postWait = NoWait
    /\ postSlept = 0
    /\ postResult = <<>>

NextPost ==
    \/ PostSend
    \/ PostRespond
    \/ PostSleepDone
    \/ PostSleepCancelled
    \/ PostCancel

(* postWithRetry takes its steps; the responses and the cancellation are the
   environment's. *)
SpecPost ==
    /\ InitPost /\ [][NextPost]_vars
    /\ WF_vars(PostSend) /\ WF_vars(PostRespond)
    /\ WF_vars(PostSleepDone) /\ WF_vars(PostSleepCancelled)

InitRate ==
    /\ PageIdle
    /\ OnceIdle
    /\ EvalIdle
    /\ RunnerIdle
    /\ CoordIdle
    /\ LoopIdle
    /\ StoreIdle
    /\ FetchIdle
    /\ SlackIdle
    /\ PostIdle
    /\ stabilization = 1
    /\ rateNow = 0
    /\ limiters = [k \in LimiterKeys |-> <<>>]
    /\ calls = [c \in Callers |-> NoCall]

NextRate ==
    \/ \E c \in Callers :
          \/ RateCall(c)
          \/ RateTimer(c)
          \/ RateCtxDone(c)
          \/ RatePost(c)
          \/ RateCancel(c)
    \/ RateTick

SpecRate == InitRate /\ [][NextRate]_vars

InitOnce ==
    /\ PageIdle
    /\ RateIdle
    /\ PostIdle
    /\ SlackIdle
    /\ FetchIdle
    /\ EvalIdle
    /\ RunnerIdle
    /\ CoordIdle
    /\ LoopIdle
    /\ StoreIdle
    /\ stabilization = 1
    /\ composeETag = NoETag
    /\ composeHash = NoHash
    /\ lastDesiredState = NoDesiredState
    /\ metricsSet \in BOOLEAN
    /\ dockerAPIErrors = 0
    /\ serverDoc \in ComposeBodies
    /\ serverETags \in BOOLEAN
    /\ onceCycles = 0
    /\ parsedFrom = EmptyBody
    /\ onceLog = NoOnceLog

NextOnce ==
    \/ \E fetchFails, actualFails, persistFails \in BOOLEAN :
          OnceCycle(fetchFails, actualFails, persistFails)
    \/ ServerUpdate

SpecOnce == InitOnce /\ [][NextOnce]_vars

InitPage ==
    /\ OnceIdle
    /\ RateIdle
    /\ PostIdle
    /\ SlackIdle
    /\ FetchIdle
    /\ EvalIdle
    /\ RunnerIdle
    /\ CoordIdle
    /\ LoopIdle
    /\ StoreIdle
    /\ stabilization = 1
    /\ pagePc = "input"
    /\ pageData \in SUBSET Range(AllIDs)
    /\ pageCapped \in BOOLEAN
    /\ pageItems = <<>>
    /\ pageQueries = {}

NextPage == Paginate

SpecPage == InitPage /\ [][NextPage]_vars

Spec == SpecStab

---------------------------------------------------------------------------
(* Properties *)

(* What a cycle that reached the notifier worked on. *)
Prior(r) == prevServicesOf(snapshot[r])
Saved(r) == loaded[r][stackKey(r)].Services
EmittedNames(r) == {transitions[r][i].Name : i \in 1..Len(transitions[r])}
Emitted(r, n) == CHOOSE t \in Range(transitions[r]) : t.Name = n
InCriticalSection(r) == pc[r] \in {"load", "stabilize", "unlock", "unlockErr"}

(* The status a service was last notified with according to the prior
   snapshot: its lastNotifiedStatus, else its prior status, else none. *)
PriorNotified(r, n) ==
    IF n \notin DOMAIN Prior(r) THEN NoStatus
    ELSE IF Prior(r)[n].LastNotifiedStatus # NoStatus
         THEN Prior(r)[n].LastNotifiedStatus
         ELSE Prior(r)[n].Status

BarrierPassed(r, n) ==
    stabilization <= 1 \/ Saved(r)[n].ConsecutiveCycles >= stabilization

(* C1: runners sharing store and mutex run load -> update -> save as one
   critical section: at most one runner is inside it, and the entry of every
   stack in the state file is always the snapshot that stack's own runner saved
   last (no save of another runner loses or changes it). *)
C1_NoLostSnapshot ==
    /\ \A a, b \in Stacks : InCriticalSection(a) /\ InCriticalSection(b) => a = b
    /\ \A r \in Stacks :
          IF stackKey(r) \in DOMAIN stateFile
          THEN lastSaved[r] = <<stateFile[stackKey(r)]>>
          ELSE lastSaved[r] = NoSnapshot

(* C1 witness: a runner that saved before waits for the mutex while another
   runner is between its load, which read the first one's snapshot, and its
   save. *)
C1_Witness ==
    \E a, b \in Stacks :
        /\ a # b
        /\ pc[a] = "lock" /\ lastSaved[a] # NoSnapshot
        /\ pc[b] = "stabilize" /\ stackKey(a) \in DOMAIN loaded[b]

(* C2 as stated: on a run that is not a first run a transition is emitted for
   a service iff its status differs from its lastNotifiedStatus and
   (S <= 1 or consecutiveCycles >= S). *)
C2_Original ==
    \A r \in Stacks :
        (pc[r] = "notify" /\ ~isFirstRun(snapshot[r])) =>
            \A n \in DOMAIN Saved(r) :
                n \in EmittedNames(r) <=>
                    (stackHealth[r].Services[n].Status # PriorNotified(r, n)
                     /\ BarrierPassed(r, n))

(* C2 amended: the equivalence holds for a service that has an entry in the
   prior snapshot; a service without one is emitted iff, in addition, its
   status is not OK. *)
C2_SubsequentRun ==
    \A r \in Stacks :
        (pc[r] = "notify" /\ ~isFirstRun(snapshot[r])) =>
            \A n \in DOMAIN Saved(r) :
                n \in EmittedNames(r) <=>
                    (/\ stackHealth[r].Services[n].Status # PriorNotified(r, n)
                     /\ BarrierPassed(r, n)
                     /\ (n \notin DOMAIN Prior(r) =>
                            stackHealth[r].Services[n].Status # StatusOK))

(* C2 witness: with S = 2 a service with a prior entry is emitted in its
   second consecutive cycle in a status it was not notified with. *)
C2_Witness ==
    \E r \in Stacks :
        /\ pc[r] = "notify" /\ ~isFirstRun(snapshot[r]) /\ stabilization = 2
        /\ \E n \in EmittedNames(r) :
              n \in DOMAIN Prior(r) /\ Saved(r)[n].ConsecutiveCycles = 2

(* C3: on a first run (no prior snapshot, or one with no services) exactly the
   services whose status is not OK are emitted, whatever S is, each with an
   empty previous status. *)
C3_FirstRun ==
    \A r \in Stacks :
        (pc[r] = "notify" /\ isFirstRun(snapshot[r])) =>
            /\ EmittedNames(r) =
                  {n \in DOMAIN stackHealth[r].Services :
                      stackHealth[r].Services[n].Status # StatusOK}
            /\ \A i \in 1..Len(transitions[r]) :
                  transitions[r][i].PreviousStatus = NoStatus

(* C3 witness: a first run over a prior snapshot with an empty services map,
   S = 2, one service OK and one not. *)
C3_Witness ==
    \E r \in Stacks :
        /\ pc[r] = "notify" /\ stabilization = 2
        /\ snapshot[r] # NoSnapshot /\ isFirstRun(snapshot[r])
        /\ EmittedNames(r) # {}
        /\ \E n \in DOMAIN Saved(r) : Saved(r)[n].Status = StatusOK

(* C4: in a run of cycles with identical inputs, a service whose barrier was
   crossed in an earlier cycle of the run (a first-run cycle, or its S-th
   consecutive cycle in the status) has no transition emitted afterwards. *)
C4_NoRepeat ==
    \A r \in Stacks :
        pc[r] = "notify" => EmittedNames(r) \cap crossed[r] = {}

(* C4 witness: S = 2, not a first run, a cycle repeating the inputs of the one
   in which a non-OK service was emitted in its second consecutive cycle. *)
C4_Witness ==
    \E r \in Stacks :
        /\ pc[r] = "notify" /\ stabilization = 2 /\ ~isFirstRun(snapshot[r])
        /\ \E n \in crossed[r] \cap DOMAIN Saved(r) :
              /\ Saved(r)[n].Status # StatusOK
              /\ Saved(r)[n].ConsecutiveCycles = 3
              /\ Saved(r)[n].LastNotifiedStatus = Saved(r)[n].Status
              /\ n \in DOMAIN before[r][1].Services
              /\ before[r][1].Services[n].LastNotifiedStatus = StatusOK

(* The scenario of C5: S = 2 and the prior snapshot has api OK with 2 desired
   and 2 running, notified with nothing else than OK. *)
ApiHealthy(services) ==
    /\ "api" \in DOMAIN services
    /\ services["api"].Status = StatusOK
    /\ services["api"].DesiredReplicas = 2
    /\ services["api"].RunningReplicas = 2
    /\ services["api"].LastNotifiedStatus \in {NoStatus, StatusOK}

ApiObservedWithOne(r) ==
    /\ "api" \in DOMAIN lastInput[r][1] /\ "api" \in DOMAIN lastInput[r][2]
    /\ lastInput[r][1]["api"].Replicas = 2
    /\ lastInput[r][2]["api"].RunningReplicas = 1

(* C5: cycle A (running = 1 after {api: OK, 2/2}) evaluates api as DEGRADED
   and emits nothing; the identical cycle B emits api with previous = OK,
   current = DEGRADED and replicaChange {2, 2, 2, 1, 0, -1}. *)
C5_Scenario ==
    \A r \in Stacks :
        (pc[r] = "notify" /\ stabilization = 2 /\ ApiObservedWithOne(r)) =>
            /\ ApiHealthy(Prior(r)) =>
                  /\ Saved(r)["api"].Status = StatusDegraded
                  /\ "api" \notin EmittedNames(r)
            /\ (/\ before[r] # NoSnapshot
                /\ ApiHealthy(before[r][1].Services)
                /\ "api" \in DOMAIN Prior(r)
                /\ Prior(r)["api"].Status = StatusDegraded
                /\ Prior(r)["api"].RunningReplicas = 1
                /\ Prior(r)["api"].DesiredReplicas = 2
                /\ Prior(r)["api"].ConsecutiveCycles = 1) =>
                  /\ "api" \in EmittedNames(r)
                  /\ Emitted(r, "api").PreviousStatus = StatusOK
                  /\ Emitted(r, "api").CurrentStatus = StatusDegraded
                  /\ Emitted(r, "api").ReplicaChange =
                        <<[PreviousDesired |-> 2, CurrentDesired |-> 2,
                           PreviousRunning |-> 2, CurrentRunning |-> 1,
                           DesiredDelta |-> 0, RunningDelta |-> -1]>>

ReplicaReasons == {"no running replicas", "replicas running"}

(* The status image and config/secret drift alone give a service. *)
StatusWithoutReplicaRule(health) ==
    DriftStatus(IF health.DesiredImage # health.ActualImage
                THEN StatusDegraded ELSE StatusOK,
                health.Drift)

(* C6: a declared service observed with a non-empty updateState and
   running > 0 carries no reason derived from the replica count, and its
   status is the one image and drift rules give. *)
C6_UpdateSuppressesReplicaRule ==
    evalPc = "done" =>
        \A n \in DOMAIN evalDesired \cap DOMAIN evalActual :
            (evalActual[n].UpdateState # "" /\ evalActual[n].RunningReplicas > 0) =>
                /\ \A i \in 1..Len(evalResult.Services[n].Reasons) :
                      evalResult.Services[n].Reasons[i].kind \notin ReplicaReasons
                /\ evalResult.Services[n].Status =
                      StatusWithoutReplicaRule(evalResult.Services[n])

GoroutineEnded(s) == spawnPc[s] \in {"initFailed", "exited"}
RunLeftWait == coordPc \in {"deferred", "close", "returned"}
HasError(s) == s \in DOMAIN runnerErrors /\ runnerErrors[s] # NoError

(* C7 as stated: Run never returns while the context is live, for any list of
   stack mappings. *)
C7_Original == coordPc = "returned" => runCtxCancelled

(* C7 amended: Run returns only after every spawnRunner goroutine has ended,
   and, while the context is live, only if no Runner got past its poll
   interval check into its loop (no mappings, every stack failed to
   initialize, or the poll interval is not positive). *)
C7_BlocksWhileRunnersRun ==
    RunLeftWait =>
        /\ \A s \in DOMAIN mappings : GoroutineEnded(s)
        /\ ~runCtxCancelled => \A s \in DOMAIN mappings : runnerCycles[s] = 0

(* C7 witness: Run has returned after a Runner ran several cycles and the
   context was cancelled. *)
C7_Witness ==
    /\ coordPc = "returned"
    /\ runCtxCancelled
    /\ \E s \in DOMAIN mappings : runnerCycles[s] >= 2

(* C8: a Stop called while Run is entered and not yet returned cancels the
   runners and returns only after all of them have exited. *)
C8_StopWaitsForRunners ==
    (stopPc = "returned" /\ stopDuringRun) =>
        \A s \in DOMAIN mappings : GoroutineEnded(s)

(* C9: a stack whose initialization failed has its error recorded and never
   gets a Runner; the context is cancelled only by the caller or by Stop, and
   the Runner of another stack leaves its loop only on cancellation. *)
C9_State ==
    /\ \A s \in DOMAIN mappings :
          spawnPc[s] = "initFailed" =>
              HasError(s) /\ s \notin runners /\ runnerCycles[s] = 0
    /\ \A s \in DOMAIN mappings :
          (spawnPc[s] = "exited" /\ runnerCycles[s] > 0) => runCtxCancelled
    /\ runCtxCancelled =>
          ctxCancelled \/ (stopPc \in {"wait", "returned"} /\ stopCancel)

C9_Step ==
    \A s \in Stacks :
        spawnPc[s] = "initFailed" => spawnPc'[s] = "initFailed" /\ s \notin runners'

C9_InitFailureIsolated == []C9_State /\ [][C9_Step]_vars

(* C9 witness: one stack failed to initialize while the Runner of another
   stack is in its loop, past its second cycle, with the context live. *)
C9_Witness ==
    \E s, t \in DOMAIN mappings :
        /\ spawnPc[s] = "initFailed" /\ HasError(s)
        /\ spawnPc[t] = "loop" /\ runnerCycles[t] >= 2 /\ t \in runners
        /\ ~runCtxCancelled

(* C10: whenever Run returns it returns nil, also when runner errors were
   recorded. *)
C10_RunReturnsNil == coordPc = "returned" => runResult = NoError

(* C10 witness: Run has returned with an initialization error and a Runner
   error on record. *)
C10_Witness ==
    /\ coordPc = "returned"
    /\ \E s \in DOMAIN mappings : spawnPc[s] = "initFailed" /\ HasError(s)
    /\ \E s \in DOMAIN mappings : spawnPc[s] = "exited" /\ HasError(s)

PositiveInterval == pollIntervalError(loopInterval) = NoError
FailedCycles == {i \in 1..Len(cycleLog) : cycleLog[i].err # CycleOk}

(* C11: with a positive poll interval Run executes one cycle at once, before
   the ticker exists and with no tick received, and after that exactly one
   cycle for each tick it receives. *)
C11_ImmediateThenPerTick ==
    PositiveInterval =>
        /\ loopPc \notin {"entry", "first"} => Len(cycleLog) >= 1
        /\ Len(cycleLog) >= 1 =>
              cycleLog[1].ticks = 0 /\ cycleLog[1].ticker = "none"
        /\ \A i \in 2..Len(cycleLog) : cycleLog[i].ticks = i - 1
        /\ loopPc \in {"ticker", "select", "returned"} =>
              Len(cycleLog) = 1 + ticksReceived
        /\ loopPc = "cycle" => Len(cycleLog) = ticksReceived

(* C11 witness: the immediate cycle and one cycle for each of two ticks have
   run, the context is live. *)
C11_Witness ==
    /\ loopPc = "select"
    /\ ~loopCtxDone
    /\ ticksReceived = 2
    /\ Len(cycleLog) = 3

(* C12: a cycle that fails with a runtime error, the initial one included,
   does not end Run: Run returns only on cancellation and with nil, every
   failure is logged, and after a failed cycle Run goes on to the ticker. *)
C12_State ==
    /\ (loopPc = "returned" /\ PositiveInterval) =>
          loopCtxDone /\ loopResult = NoError
    /\ Len(errorLog) = Cardinality(FailedCycles)
    /\ \A i \in FailedCycles :
          cycleLog[i].err.runtime =>
              \E k \in 1..Len(errorLog) : errorLog[k].runtime_error

C12_Step ==
    (loopPc \in {"first", "cycle"} /\ Len(cycleLog') > Len(cycleLog)) =>
        loopPc' = (IF loopPc = "first" THEN "ticker" ELSE "select")

C12_RuntimeErrorKeepsLoop == []C12_State /\ [][C12_Step]_vars

(* C12 witness: the initial cycle and the cycle of the first tick failed with
   runtime errors and a further tick has started a third cycle. *)
C12_Witness ==
    /\ loopPc = "cycle"
    /\ ~loopCtxDone
    /\ Len(cycleLog) = 2
    /\ cycleLog[1].err = wrapRuntime("compose fetch")
    /\ cycleLog[2].err = wrapRuntime("state evaluation: state save")
    /\ ticksReceived = 2

(* C13: after the context is cancelled Run returns; it returns nil and its
   ticker is stopped when it has returned. *)
C13_State ==
    (loopPc = "returned" /\ PositiveInterval) =>
        loopResult = NoError /\ tickerState = "stopped"

C13_TerminatesOnCancel ==
    []C13_State /\ ((loopCtxDone /\ loopPc # "idle") ~> (loopPc = "returned"))

(* C13 witness: Run returned after cancellation, having run a cycle on a
   tick, with the ticker stopped. *)
C13_Witness ==
    /\ loopPc = "returned"
    /\ loopCtxDone
    /\ tickerState = "stopped"
    /\ ticksReceived >= 1

(* C14: when notifier.Notify returned an error the cycle still returns nil,
   and the snapshot the cycle saved is the stack's entry of the state file. *)
C14_NotifyFailureKeepsCycle ==
    \A r \in Stacks :
        (pc[r] = "idle" /\ notifyErr[r] # NoError) =>
            /\ cycleErr[r] = NoError
            /\ stackKey(r) \in DOMAIN stateFile
            /\ lastSaved[r] = <<stateFile[stackKey(r)]>>
            /\ stateFile[stackKey(r)].EvaluatedAt = cycles[r]

(* C14 witness: a cycle has ended after its notifier call failed for a
   non-empty list of transitions. *)
C14_Witness ==
    \E r \in Stacks :
        /\ pc[r] = "idle"
        /\ notifyErr[r] = NotifyError
        /\ Len(notified[r]) > 0

(* C15: at every point of a Save, an interrupted or failed one included, the
   file at the destination path is the complete document that was there when
   the Save began or the complete new document, never a truncated one. *)
C15_SaveAtomic ==
    /\ storePath.kind # "partial"
    /\ (InSave \/ savePc = "interrupted") =>
          storePath \in {storePrev, Encode(saveState)}
    /\ loadFrom.kind # "partial"

(* C15 witness: a Save was interrupted while its temp file held a truncated
   document and a Load then read the destination. *)
C15_Witness ==
    /\ savePc = "interrupted"
    /\ storeTemp.kind = "partial"
    /\ storeTemp # EmptyFile
    /\ storePath = storePrev
    /\ storePath # Encode(saveState)
    /\ loadFrom = storePath
    /\ loadResult[2] = NoError

(* C16: every State a successful Load returns has version 1; a version 0
   file keeps its stacks, and a missing file, unparseable content or a newer
   version give the empty state without error. *)
C16_LoadVersion ==
    loadResult[2] = NoError =>
        /\ loadResult[1].Version = CurrentStateVersion
        /\ (loadFrom.kind = "json" /\ loadFrom.version = 0) =>
              loadResult[1].Stacks =
                  (IF loadFrom.stacks = NilStacks THEN EmptyStacks ELSE loadFrom.stacks)
        /\ (loadFrom.kind # "json" \/ loadFrom.version > CurrentStateVersion) =>
              loadResult[1] = FreshState

Evaluated == evalPc = "done"
Declared == DOMAIN evalDesired
Observed == DOMAIN evalActual
Both == Declared \cap Observed
MaxSeverity(services) ==
    IF DOMAIN services = {} THEN 0
    ELSE CHOOSE m \in 0..2 :
            /\ \E n \in DOMAIN services : severity(services[n].Status) = m
            /\ \A n \in DOMAIN services : severity(services[n].Status) <= m

(* C17: the stack status has the maximum severity of the services of the
   StackHealth, and is OK when there are none. *)
C17_StackStatusIsMax ==
    Evaluated =>
        /\ evalResult.Status \in {StatusOK, StatusDegraded, StatusFailed}
        /\ severity(evalResult.Status) = MaxSeverity(evalResult.Services)
        /\ DOMAIN evalResult.Services = {} => evalResult.Status = StatusOK

(* C17 witness: a stack with an OK and a FAILED service is FAILED. *)
C17_Witness ==
    /\ Evaluated
    /\ evalResult.Status = StatusFailed
    /\ \E n, k \in DOMAIN evalResult.Services :
          /\ evalResult.Services[n].Status = StatusOK
          /\ evalResult.Services[k].Status = StatusFailed

(* The desired replica count N of a declared and observed service. *)
WantedReplicas(n) ==
    IF evalDesired[n].Mode = "global" THEN evalActual[n].DesiredReplicas
    ELSE evalDesired[n].Replicas

(* C18: for a declared and observed service with N > 0: running = 0 gives
   FAILED with "no running replicas (desired N)"; running # N gives at least
   DEGRADED with "replicas running R/N"; running = N gives no replica reason. *)
C18_ReplicaRule ==
    Evaluated =>
        \A n \in Both :
            LET N == WantedReplicas(n)
                R == evalActual[n].RunningReplicas
                h == evalResult.Services[n]
                replicaReasons ==
                    {x \in Range(h.Reasons) :
                        x.kind \in {"no running replicas", "replicas running"}}
            IN N > 0 =>
                /\ R = 0 => /\ h.Status = StatusFailed
                            /\ replicaReasons = {ReasonNoRunning(N)}
                /\ (R > 0 /\ R # N) =>
                            /\ severity(h.Status) >= severity(StatusDegraded)
                            /\ replicaReasons = {ReasonReplicas(R, N)}
                /\ R = N => replicaReasons = {}

(* C18 witness: a global-mode service running more replicas than the
   orchestrator wants, otherwise healthy, is DEGRADED. *)
C18_Witness ==
    /\ Evaluated
    /\ \E n \in Both :
          /\ evalDesired[n].Mode = "global"
          /\ WantedReplicas(n) > 0
          /\ evalActual[n].RunningReplicas > WantedReplicas(n)
          /\ evalResult.Services[n].Status = StatusDegraded
          /\ Len(evalResult.Services[n].Reasons) = 1

DeclaredNames(n, resource) ==
    Range(IF resource = "config" THEN evalDesired[n].Configs ELSE evalDesired[n].Secrets)
ObservedNames(n, resource) ==
    Range(IF resource = "config" THEN evalActual[n].Configs ELSE evalActual[n].Secrets)

(* C19: for a declared and observed service, every config or secret name
   declared but not observed gives drift {MISSING, kind, name} and status
   FAILED; every name observed but not declared gives drift
   {EXTRA, kind, name} and a status of at least DEGRADED. *)
C19_ConfigSecretDrift ==
    Evaluated =>
        \A n \in Both : \A resource \in {"config", "secret"} :
            LET h == evalResult.Services[n] IN
            /\ \A x \in DeclaredNames(n, resource) \ ObservedNames(n, resource) :
                  /\ Drift(DriftMissing, resource, x) \in Range(h.Drift)
                  /\ h.Status = StatusFailed
            /\ \A x \in ObservedNames(n, resource) \ DeclaredNames(n, resource) :
                  /\ Drift(DriftExtra, resource, x) \in Range(h.Drift)
                  /\ severity(h.Status) >= severity(StatusDegraded)

(* C19 witness: a service whose only finding is an undeclared config is
   DEGRADED, with the EXTRA drift as its only drift. *)
C19_Witness ==
    /\ Evaluated
    /\ \E n \in Both :
          /\ evalResult.Services[n].Drift = <<Drift(DriftExtra, "config", "cfg1")>>
          /\ evalResult.Services[n].Status = StatusDegraded
          /\ Len(evalResult.Services[n].Reasons) = 1

(* C20: an observed service that is not declared is in the StackHealth, as
   DEGRADED with reason "extra service" and drift EXTRA_SERVICE, exactly when
   the evaluation is stack-scoped; unscoped, with nothing declared, the
   services map is empty and the stack is OK. *)
C20_ExtraServiceScope ==
    Evaluated =>
        /\ \A n \in Observed \ Declared :
              IF evalScoped
              THEN /\ n \in DOMAIN evalResult.Services
                   /\ evalResult.Services[n].Status = StatusDegraded
                   /\ evalResult.Services[n].Reasons = <<ReasonExtraService>>
                   /\ evalResult.Services[n].Drift =
                          <<Drift(DriftExtraService, "service", n)>>
              ELSE n \notin DOMAIN evalResult.Services
        /\ (~evalScoped /\ Declared = {}) =>
              /\ DOMAIN evalResult.Services = {}
              /\ evalResult.Status = StatusOK

(* C20 witness: nothing declared, two services observed, not scoped: the
   result has no services and is OK. *)
C20_Witness ==
    /\ Evaluated
    /\ ~evalScoped
    /\ Declared = {}
    /\ Cardinality(Observed) = 2
    /\ DOMAIN evalResult.Services = {}
    /\ evalResult.Status = StatusOK

(* Position of a service name in ascending (byte-wise) order of names. *)
NameBefore(a, b) ==
    \E i, j \in 1..Len(ServiceOrder) :
        i < j /\ ServiceOrder[i] = a /\ ServiceOrder[j] = b

(* C21: the transitions emitted in one cycle are sorted in ascending order of
   service name. *)
C21_SortedByName ==
    \A r \in Stacks :
        pc[r] \in {"unlock", "notify"} =>
            \A i, j \in 1..Len(transitions[r]) :
                i < j => NameBefore(transitions[r][i].Name, transitions[r][j].Name)

(* C21 witness: a cycle that emits a transition for each of two services. *)
C21_Witness ==
    \E r \in Stacks :
        /\ pc[r] = "notify" /\ Len(transitions[r]) = 2
        /\ transitions[r][1].Name = "api" /\ transitions[r][2].Name = "web"

(* Services of the prior snapshot that the current evaluation does not name. *)
Removed(r) == DOMAIN Prior(r) \ DOMAIN stackHealth[r].Services

(* C22: a service of the prior snapshot that is absent from the current
   evaluation has no transition emitted, and has no entry in the snapshot the
   cycle saved. *)
C22_RemovedService ==
    \A r \in Stacks :
        pc[r] = "notify" =>
            \A n \in Removed(r) :
                /\ n \notin EmittedNames(r)
                /\ n \notin DOMAIN lastSaved[r][1].Services
                /\ n \notin DOMAIN stateFile[stackKey(r)].Services

(* C22 witness: a cycle that saved a snapshot while a service of the prior
   snapshot, last seen not OK, is absent from the evaluation. *)
C22_Witness ==
    \E r \in Stacks :
        /\ pc[r] = "notify"
        /\ \E n \in Removed(r) : Prior(r)[n].Status # StatusOK
        /\ DOMAIN lastSaved[r][1].Services # {}

(* C29 as stated: the saved lastNotifiedStatus of a service differs from the
   value carried over from the prior snapshot only if a transition was emitted
   for the service in that cycle, and then it is the current status. *)
C29_Original ==
    \A r \in Stacks :
        pc[r] = "notify" =>
            \A n \in DOMAIN Saved(r) :
                /\ Saved(r)[n].LastNotifiedStatus # PriorNotified(r, n) =>
                      n \in EmittedNames(r)
                /\ n \in EmittedNames(r) =>
                      Saved(r)[n].LastNotifiedStatus = Saved(r)[n].Status

(* A service without a prior entry that is OK on a run that is not the first,
   with no stabilization barrier: it passes the notification rule, and no
   transition is built for it. *)
NewAndOK(r, n) ==
    /\ ~isFirstRun(snapshot[r])
    /\ n \notin DOMAIN Prior(r)
    /\ Saved(r)[n].Status = StatusOK
    /\ effectiveStabilization(stabilization) <= 1

(* C29 amended: the saved lastNotifiedStatus differs from the carried-over
   value only if a transition was emitted for the service or the service is
   new and OK on a non-first run with S <= 1; in both cases, and whenever a
   transition was emitted, it is the current status. *)
C29_LastNotifiedCarriedOver ==
    \A r \in Stacks :
        pc[r] = "notify" =>
            \A n \in DOMAIN Saved(r) :
                /\ Saved(r)[n].LastNotifiedStatus # PriorNotified(r, n) =>
                      /\ n \in EmittedNames(r) \/ NewAndOK(r, n)
                      /\ Saved(r)[n].LastNotifiedStatus = Saved(r)[n].Status
                /\ n \in EmittedNames(r) =>
                      Saved(r)[n].LastNotifiedStatus = Saved(r)[n].Status

(* C29 witness: a cycle, not a first run, that saved one service with a new
   lastNotifiedStatus and a transition, and another with the value carried
   over from a prior entry. *)
C29_Witness ==
    \E r \in Stacks :
        /\ pc[r] = "notify" /\ ~isFirstRun(snapshot[r])
        /\ \E n \in EmittedNames(r) :
              /\ n \in DOMAIN Prior(r)
              /\ Saved(r)[n].LastNotifiedStatus # PriorNotified(r, n)
        /\ \E n \in DOMAIN Saved(r) \cap DOMAIN Prior(r) :
              /\ n \notin EmittedNames(r)
              /\ Saved(r)[n].Status # Prior(r)[n].Status
              /\ Saved(r)[n].LastNotifiedStatus = PriorNotified(r, n)

(* C30: with S >= 2, a service that first appeared not OK on a run that was
   not the first and has kept its status has had a transition emitted by its
   S-th consecutive cycle in that status: after that cycle it is not owed one
   any more. *)
C30_EmittedBySthCycle ==
    \A r \in Stacks :
        (pc[r] = "notify" /\ stabilization >= 2) =>
            \A n \in owed[r] : Saved(r)[n].ConsecutiveCycles < stabilization

Requests == Len(fetchLog)
FetchReturned == fetchPc = "returned"
AllRetryable == \A i \in 1..Requests : isRetryableError(fetchLog[i])

(* C27: when every attempt fails with a retryable error (and the context is
   not cancelled), Fetch makes exactly maxRetries + 1 attempts, never more,
   and returns "fetch failed after N attempts" with N = maxRetries + 1,
   wrapping the error of the last attempt. *)
C27_RetriesExhausted ==
    /\ Requests <= fetchMaxRetries + 1
    /\ (FetchReturned /\ ~fetchCtxDone /\ AllRetryable) =>
          /\ Requests = fetchMaxRetries + 1
          /\ fetchResult =
                <<FetchErr("fetch failed after attempts", fetchMaxRetries + 1,
                           <<fetchLog[Requests]>>)>>

(* C27 witness: maxRetries = 2 and three requests that failed with a retryable
   error, the last one not of the kind of the first. *)
C27_Witness ==
    /\ FetchReturned /\ ~fetchCtxDone /\ AllRetryable
    /\ fetchMaxRetries = 2 /\ Requests = 3
    /\ fetchLog[1].kind # fetchLog[3].kind
    /\ fetchResult[1].n = 3

(* C28: when the context is cancelled while Fetch waits between attempts or
   while a request is in flight, no request is sent afterwards and Fetch
   returns the context's error itself. *)
C28_CancelPropagates ==
    (fetchCancelAt # <<>> /\ fetchCancelAt[1].pc \in {"wait", "inflight"}) =>
        /\ Requests = fetchCancelAt[1].requests
        /\ FetchReturned => fetchResult = <<CtxCanceled>>

(* C28 witness: cancelled while the first retry is in flight; the request is
   aborted and Fetch returns the context's error. *)
C28_Witness ==
    /\ FetchReturned /\ fetchCancelAt # <<>>
    /\ fetchCancelAt[1].pc = "inflight" /\ fetchCancelAt[1].requests = 2
    /\ fetchLog[2] = AbortedRequest(2)
    /\ fetchResult = <<CtxCanceled>>

(* The transitions of a message, in the order of its blocks. *)
ChangesOf(message) ==
    LET sections == SelectSeq(message.Blocks, LAMBDA b : b.type = "section")
    IN [k \in 1..Len(sections) |-> sections[k].change]

RECURSIVE Flatten(_)
Flatten(seqs) == IF seqs = <<>> THEN <<>> ELSE Head(seqs) \o Flatten(Tail(seqs))

(* C26: for n >= 1 transitions there are ceil(n/48) messages, each with at
   most 48 transitions and at most 50 blocks, each marked "part i/n" when
   there is more than one; in order they hold every transition once, in the
   original order. *)
C26_SlackChunks ==
    (slackPc = "built" /\ Len(slackTransitions) >= 1) =>
        LET n == Len(slackTransitions)
            count == Len(slackMessages)
        IN /\ 48 * (count - 1) < n /\ n <= 48 * count
           /\ \A i \in 1..count :
                 /\ Len(ChangesOf(slackMessages[i])) <= 48
                 /\ Len(slackMessages[i].Blocks) <= 50
                 /\ count > 1 => slackMessages[i].Text.part = <<i, count>>
           /\ Flatten([i \in 1..count |-> ChangesOf(slackMessages[i])])
                 = slackTransitions

(* C26 witness: 99 transitions in descending order, built into three
   messages, the last with three transitions. *)
C26_Witness ==
    /\ slackPc = "built" /\ Len(slackTransitions) = 99
    /\ slackTransitions[1] = 99
    /\ Len(slackMessages) = 3
    /\ ChangesOf(slackMessages[3]) = <<3, 2, 1>>
    /\ slackMessages[2].Text.part = <<2, 3>>

(* C23: a delivery that keeps receiving retryable failures stops retrying and
   returns once the maximum elapsed retry time is exhausted; it never retries
   indefinitely: postWithRetry eventually returns. *)
C23_DeliveryTerminates == <>(postPc = "returned")

(* The positive duration a Retry-After header parses to, in time units; 0
   when it is absent, unparsable or not positive. *)
RetryAfterDuration(h) ==
    IF h.form = "seconds" /\ h.value > 0 THEN h.value * Second
    ELSE IF h.form = "date" /\ h.value > 0 THEN h.value
    ELSE 0

(* C24: after a 429 whose Retry-After parses to a positive duration d the
   next attempt is made after waiting exactly d, not the backoff interval;
   after any other 429 the wait is the exponential backoff's. *)
C24_RetryAfterHonoured ==
    (postResp.status = 429 /\ postPc \in {"sleep", "send"}) =>
        LET d == RetryAfterDuration(postResp.header)
        IN IF d > 0
           THEN /\ postWait = Wait("retryAfter", d)
                /\ postPc = "send" => postSlept = d
           ELSE /\ postWait.kind = "backoff"
                /\ postPc = "send" => postSlept = postWait.d

Granted(c) == calls[c].grantedAt # NoTime
Reserved(c) == calls[c].timeToAct # NoTime
SameStack(a, b) == stackNameOf(calls[a].stack) = stackNameOf(calls[b].stack)
Failed(c) == calls[c].pc = "returned" /\ calls[c].err # RateNil

(* Two calls for one stack are let through at least rateInterval apart, and
   only a call that was let through posts. *)
TokenPerInterval ==
    /\ \A a, b \in Callers :
          (a # b /\ SameStack(a, b) /\ Granted(a) /\ Granted(b)) =>
              \/ calls[a].grantedAt - calls[b].grantedAt >= rateInterval
              \/ calls[b].grantedAt - calls[a].grantedAt >= rateInterval
    /\ \A c \in Callers :
          calls[c].posted => Granted(c) /\ calls[c].err = RateNil

(* A call waits, or fails on the limiter, only behind an earlier call for the
   same stack. *)
OnlyOwnStackDelays ==
    \A c \in Callers :
        (calls[c].timeToAct > calls[c].calledAt \/ calls[c].err = RateWouldExceed) =>
            \E b \in Callers :
                b # c /\ SameStack(b, c) /\ Reserved(b)
                /\ calls[b].calledAt <= calls[c].calledAt

(* C25 as stated: per stack one token per rateInterval; a Notify that is not
   let through returns the error of its context, which has ended, and has
   posted nothing; a Notify is delayed by calls for its own stack only. *)
C25_Original ==
    /\ TokenPerInterval
    /\ OnlyOwnStackDelays
    /\ \A c \in Callers :
          Failed(c) =>
              /\ ~calls[c].posted
              /\ calls[c].err = ctxErrAt(calls[c], rateNow)

(* C25 amended: a Notify that is not let through has posted nothing and
   returns the error of its context, which has ended, or, at once and before
   the context ends, the limiter's "would exceed context deadline" when the
   context's deadline is earlier than the token: less than rateInterval after
   the time an earlier call for the stack was given. *)
C25_PerStackTokenBucket ==
    /\ TokenPerInterval
    /\ OnlyOwnStackDelays
    /\ \A c \in Callers :
          Failed(c) =>
              /\ ~calls[c].posted
              /\ \/ calls[c].err = ctxErrAt(calls[c], rateNow)
                 \/ /\ calls[c].err = RateWouldExceed
                    /\ calls[c].deadline # NoDeadline
                    /\ ~Reserved(c)
                    /\ \E b \in Callers :
                          /\ b # c /\ SameStack(b, c) /\ Reserved(b)
                          /\ calls[b].timeToAct + rateInterval > calls[c].deadline

(* C25 witness: a second Notify for a stack, called within rateInterval of
   the first, is let through rateInterval after it, while a Notify for another
   stack called in between is let through at once. *)
C25_Witness ==
    \E a, b, c \in Callers :
        /\ a # b /\ SameStack(a, b) /\ ~SameStack(a, c)
        /\ calls[a].posted /\ calls[c].posted
        /\ calls[b].calledAt > calls[a].grantedAt
        /\ calls[b].grantedAt = calls[a].grantedAt + rateInterval
        /\ calls[c].calledAt >= calls[b].calledAt
        /\ calls[c].grantedAt = calls[c].calledAt
        /\ calls[c].grantedAt < calls[b].grantedAt

(* C31: a failed delivery does not mark the status as notified: after a cycle
   whose notifier call returned an error, the snapshot the cycle saved does not
   hold the emitted status as the lastNotifiedStatus of a service of the failed
   transitions, so that the change is emitted again while the status lasts. *)
C31_FailedDeliveryNotMarked ==
    \A r \in Stacks :
        (pc[r] = "idle" /\ notifyErr[r] = NotifyError) =>
            \A i \in 1..Len(notified[r]) :
                stateFile[stackKey(r)].Services[notified[r][i].Name].LastNotifiedStatus
                    # notified[r][i].CurrentStatus

(* A service whose transition was not delivered and whose status has lasted
   through the cycle that has just saved. *)
AwaitsRedelivery(r, n) ==
    /\ pc[r] = "notify"
    /\ n \in undelivered[r]

(* In no cycle is a transition emitted for a service that awaits redelivery. *)
NeverEmittedAgain ==
    \A r \in Stacks : \A n \in undelivered[r] :
        AwaitsRedelivery(r, n) => n \notin EmittedNames(r)

(* A service awaits redelivery in the second saved cycle after the failure. *)
AwaitsRedeliveryTwice ==
    \E r \in Stacks : \E n \in undelivered[r] :
        /\ AwaitsRedelivery(r, n)
        /\ Saved(r)[n].ConsecutiveCycles >= 3

(* A service with a prior entry whose status in the prior snapshot is away
   from its lastNotifiedStatus and has been for fewer than S cycles. *)
InShortExcursion(r, n) ==
    /\ n \in DOMAIN Prior(r) \cap DOMAIN Saved(r)
    /\ Prior(r)[n].Status # PriorNotified(r, n)
    /\ Prior(r)[n].ConsecutiveCycles < stabilization

(* C34: with S >= 2 no transition is emitted for a service in a cycle in which
   it has been away from its lastNotifiedStatus for fewer than S consecutive
   cycles, nor in the cycle in which it is back at its lastNotifiedStatus
   after such an excursion; the lastNotifiedStatus is kept through both. *)
C34_ShortExcursionSuppressed ==
    \A r \in Stacks :
        (pc[r] = "notify" /\ stabilization >= 2) =>
            \A n \in DOMAIN Prior(r) \cap DOMAIN Saved(r) :
                /\ (Saved(r)[n].Status # PriorNotified(r, n)
                    /\ Saved(r)[n].ConsecutiveCycles < stabilization) =>
                      /\ n \notin EmittedNames(r)
                      /\ Saved(r)[n].LastNotifiedStatus = PriorNotified(r, n)
                /\ (InShortExcursion(r, n)
                    /\ Saved(r)[n].Status = PriorNotified(r, n)) =>
                      /\ n \notin EmittedNames(r)
                      /\ Saved(r)[n].LastNotifiedStatus = PriorNotified(r, n)

(* C34 witness: S = 2; api was OK and notified as OK, was DEGRADED for one
   cycle without a transition, and is OK again in the cycle that just saved. *)
C34_Witness ==
    \E r \in Stacks :
        /\ pc[r] = "notify" /\ stabilization = 2
        /\ before[r] # NoSnapshot
        /\ "api" \in DOMAIN before[r][1].Services
        /\ before[r][1].Services["api"].Status = StatusOK
        /\ InShortExcursion(r, "api")
        /\ Prior(r)["api"].Status = StatusDegraded
        /\ Prior(r)["api"].LastNotifiedStatus = StatusOK
        /\ Saved(r)["api"].Status = StatusOK
        /\ transitions[r] = <<>>

(* C35: in every snapshot a cycle saves, a service's consecutiveCycles is 1 if
   it has no prior entry or its status differs from the prior entry's,
   otherwise the prior consecutiveCycles + 1, and 2 when the prior entry
   carries no positive count; it is always >= 1. *)
C35_ConsecutiveCycles ==
    \A r \in Stacks :
        pc[r] = "notify" =>
            /\ stateFile[stackKey(r)].Services = Saved(r)
            /\ \A n \in DOMAIN Saved(r) :
                  /\ Saved(r)[n].ConsecutiveCycles >= 1
                  /\ (n \notin DOMAIN Prior(r)
                      \/ Prior(r)[n].Status # Saved(r)[n].Status) =>
                        Saved(r)[n].ConsecutiveCycles = 1
                  /\ (n \in DOMAIN Prior(r)
                      /\ Prior(r)[n].Status = Saved(r)[n].Status) =>
                        IF Prior(r)[n].ConsecutiveCycles > 0
                        THEN Saved(r)[n].ConsecutiveCycles
                                = Prior(r)[n].ConsecutiveCycles + 1
                        ELSE Saved(r)[n].ConsecutiveCycles = 2

(* C35 witness: the third cycle over a state file whose entry carried no
   count: the service kept its status and its count went 0, 2, 3, while a
   service without a prior entry is saved with 1. *)
C35_Witness ==
    \E r \in Stacks :
        /\ pc[r] = "notify"
        /\ before[r] # NoSnapshot
        /\ "api" \in DOMAIN before[r][1].Services
        /\ before[r][1].Services["api"].ConsecutiveCycles = 0
        /\ "api" \in DOMAIN Prior(r) /\ Prior(r)["api"].ConsecutiveCycles = 2
        /\ "api" \in DOMAIN Saved(r) /\ Saved(r)["api"].ConsecutiveCycles = 3
        /\ "web" \in DOMAIN Saved(r) \ DOMAIN Prior(r)
        /\ Saved(r)["web"].ConsecutiveCycles = 1

(* The cycle of runner r has saved its snapshot and the state file holds it. *)
SnapshotOfCycleSaved(r) ==
    /\ lastSaved[r] # NoSnapshot
    /\ lastSaved[r][1].EvaluatedAt = cycles[r]
    /\ stackKey(r) \in DOMAIN stateFile
    /\ stateFile[stackKey(r)] = lastSaved[r][1]
    /\ \A i \in 1..Len(transitions[r]) :
          lastSaved[r][1].Services[transitions[r][i].Name].LastNotifiedStatus
              = transitions[r][i].CurrentStatus

C36_State ==
    \A r \in Stacks :
        /\ pc[r] = "notify" => (SnapshotOfCycleSaved(r) /\ stateMu # r)
        /\ notified[r] # <<>> => cycleErr[r] = NoError
        /\ (pc[r] = "idle" /\ cycleErr[r] = RuntimeError) => notified[r] = <<>>

C36_Step ==
    \A r \in Stacks :
        (notified'[r] # notified[r] /\ notified'[r] # <<>>) =>
            /\ SnapshotOfCycleSaved(r)
            /\ stateMu # r
            /\ notified'[r] = transitions[r]

(* C36: the notifier is called for a cycle's transitions only after the
   snapshot of that cycle, with the updated lastNotifiedStatus values, has
   been saved and the state mutex released; a cycle whose state load or save
   failed returns a runtime error and notifies nothing. *)
C36_NotifyAfterSave == []C36_State /\ [][C36_Step]_vars

(* C36 witness: a runner is about to hand a transition to the notifier while
   another runner holds the state mutex. *)
C36_Witness ==
    \E a, b \in Stacks :
        /\ a # b
        /\ pc[a] = "notify" /\ Len(transitions[a]) > 0
        /\ stateMu = b /\ pc[b] = "stabilize"
        /\ stackKey(a) \in DOMAIN loaded[b]

(* A service of this cycle with no entry in the prior snapshot, on a run that
   is not a first run. *)
NewOnLaterRun(r, n) ==
    /\ ~isFirstRun(snapshot[r])
    /\ n \in DOMAIN Saved(r) \ DOMAIN Prior(r)

(* C39: a service with no entry in the prior snapshot on a non-first run,
   newly added or re-added after a removal, is handled as new: its
   consecutiveCycles starts at 1, the snapshot's earlier values are not used,
   a transition emitted for it has no previous status; and no transition is
   emitted for it in that cycle or a later one while its status is OK. *)
C39_NewServiceOnLaterRun ==
    \A r \in Stacks :
        pc[r] = "notify" =>
            /\ fresh[r] \cap EmittedNames(r) = {}
            /\ \A n \in DOMAIN Saved(r) :
                  NewOnLaterRun(r, n) =>
                      /\ Saved(r)[n].ConsecutiveCycles = 1
                      /\ Saved(r)[n].LastNotifiedStatus \in {NoStatus, Saved(r)[n].Status}
                      /\ Saved(r)[n].Status = StatusOK => n \in fresh[r]
                      /\ n \in EmittedNames(r) =>
                            Emitted(r, n).PreviousStatus = NoStatus

(* C39 witness: web was in the snapshot before the prior one, is absent from
   the prior snapshot, and is back and OK in the cycle that just saved, with
   no stabilization barrier in the way; nothing is emitted for it. *)
C39_Witness ==
    \E r \in Stacks :
        /\ pc[r] = "notify" /\ stabilization <= 1
        /\ before[r] # NoSnapshot
        /\ "web" \in DOMAIN before[r][1].Services
        /\ NewOnLaterRun(r, "web")
        /\ Saved(r)["web"].Status = StatusOK
        /\ "web" \notin EmittedNames(r)

(* The state file has service n of runner r not OK while its last notified
   status is OK: no transition has been emitted for it since it left OK. *)
NotOkUnnotified(r, n) ==
    /\ stackKey(r) \in DOMAIN stateFile
    /\ n \in DOMAIN stateFile[stackKey(r)].Services
    /\ stateFile[stackKey(r)].Services[n].Status # StatusOK
    /\ stateFile[stackKey(r)].Services[n].LastNotifiedStatus = StatusOK

(* C33: with S >= 2, a service last notified as OK that is evaluated as not
   OK (DEGRADED or FAILED, in any alternation) in every following cycle
   eventually has a transition emitted for it: it does not stay not OK and
   notified as OK for ever. *)
C33_NonOkEventuallyEmitted ==
    \A r \in StabRunners : \A n \in Services :
        []<>(stabilization < 2 \/ ~NotOkUnnotified(r, n))

(* The last cycle got a fetch result and, for a body, its fingerprint. *)
FetchedInCycle ==
    /\ onceCycles > 0
    /\ onceLog.returned \notin {wrapRuntime("compose fetch"),
                                wrapRuntime("compose fingerprint")}

(* evaluateAndPersist was called in the last cycle. *)
EvaluatedInCycle == onceLog.evaluatedWith # NoDesiredState

(* C37: in a cycle the fetched body is parsed iff the result is not
   NotModified and the body's fingerprint differs from the fingerprint
   remembered before the cycle; when parsing is skipped the DesiredState held
   before the cycle is still held and is the one the cycle evaluates. *)
C37_ParseIffChanged ==
    FetchedInCycle =>
        /\ onceLog.parsed <=>
              (/\ ~onceLog.result.NotModified
               /\ Fingerprint(onceLog.result.Body)[1] # onceLog.hashBefore)
        /\ ~onceLog.parsed =>
              /\ lastDesiredState = onceLog.heldBefore
              /\ EvaluatedInCycle => onceLog.evaluatedWith = onceLog.heldBefore
        /\ (onceLog.parsed /\ EvaluatedInCycle) =>
              onceLog.evaluatedWith = <<ParseDesiredState(onceLog.result.Body)[1]>>

(* C37 witness: a server without ETags sent the body of the cycle before
   again; it was not parsed and the cycle evaluated the state held. *)
C37_Witness ==
    /\ FetchedInCycle
    /\ ~onceLog.result.NotModified
    /\ onceLog.result.Body = ComposeV2
    /\ ~onceLog.parsed
    /\ EvaluatedInCycle
    /\ onceLog.evaluatedWith = <<ParseDesiredState(ComposeV2)[1]>>
    /\ onceLog.returned = CycleOk

(* C38: a cycle in which GetActualState failed raised the Docker-API error
   counter (when a metrics object is set) by exactly one and returned the
   runtime error "swarm actual state" without calling evaluateAndPersist, in
   which health is evaluated, state saved and the notifier called; no other
   cycle changes the counter. *)
C38_ActualStateFailure ==
    onceCycles > 0 =>
        IF onceLog.actualErr
        THEN /\ metricsSet => dockerAPIErrors = onceLog.errorsBefore + 1
             /\ ~metricsSet => dockerAPIErrors = 0
             /\ onceLog.returned = wrapRuntime("swarm actual state")
             /\ onceLog.returned.runtime
             /\ ~EvaluatedInCycle
        ELSE dockerAPIErrors = onceLog.errorsBefore

(* C38 witness: GetActualState failed for the second time, in a cycle that
   holds a DesiredState and would have evaluated it. *)
C38_Witness ==
    /\ onceLog.actualErr
    /\ metricsSet
    /\ dockerAPIErrors = 2
    /\ lastDesiredState # NoDesiredState
    /\ ~EvaluatedInCycle

(* C32: the runner remembers fingerprint and ETag only of a body that was
   parsed successfully: the remembered fingerprint and ETag are those of the
   body the held DesiredState was parsed from, so that after a failed parse
   the next fetch is not conditional on the failed body's ETag, and a cycle
   skips parsing only if the held DesiredState is that of the body fetched. *)
C32_RemembersOnlyParsed ==
    /\ composeHash # NoHash =>
          /\ lastDesiredState # NoDesiredState
          /\ composeHash = Fingerprint(parsedFrom)[1]
    /\ composeETag # NoETag =>
          /\ lastDesiredState # NoDesiredState
          /\ composeETag = etagOf(parsedFrom)
    /\ (FetchedInCycle /\ ~onceLog.parsed) =>
          /\ lastDesiredState # NoDesiredState
          /\ lastDesiredState = <<ParseDesiredState(serverDoc)[1]>>


(* A cycle that skipped parsing and returned nil although the body on the
   server has never been parsed successfully: the cycle before failed to
   parse it, and the cycle evaluated the DesiredState of an older body. *)
SkippedAfterFailedParse ==
    /\ FetchedInCycle
    /\ ~onceLog.parsed
    /\ onceLog.returned = CycleOk
    /\ serverDoc = ComposeBroken
    /\ onceLog.etagSent = etagOf(ComposeBroken)
    /\ onceLog.result.NotModified
    /\ parsedFrom = ComposeV1
    /\ onceLog.evaluatedWith = <<ParseDesiredState(ComposeV1)[1]>>

(* What the API holds under a prefix, and what it answers. *)
Listing(prefix) == listFn(pageData, pageCapped, prefix)
ChildPrefixes(prefix) ==
    {prefix \o <<idPrefixCharacters[i]>> : i \in 1..Len(idPrefixCharacters)}

(* C40: a prefix above the maximum depth whose listing has as many items as
   a page holds is not used as it is: its one-character-longer prefixes are
   listed instead; and the merged result has every ID at most once. *)
C40_FullPagePartitioned ==
    pagePc = "done" =>
        /\ \A p \in pageQueries :
              (Len(p) < maxIDPrefixDepth /\ Len(Listing(p)) = maxListPageSize) =>
                  ChildPrefixes(p) \subseteq pageQueries
        /\ \A i, j \in 1..Len(pageItems) : pageItems[i] = pageItems[j] => i = j

(* Items the API holds are missing from the result. *)
ItemsLost ==
    /\ pagePc = "done"
    /\ Range(pageItems) # pageData

(* A listing larger than a page is partitioned and the result complete. *)
PartitionedWhenLarger ==
    pagePc = "done" =>
        /\ \A p \in pageQueries :
              (Len(p) < maxIDPrefixDepth /\ Len(Listing(p)) > maxListPageSize) =>
                  ChildPrefixes(p) \subseteq pageQueries
        /\ ~pageCapped => Range(pageItems) = pageData

=============================================================================
